---- MODULE Spec2Model ----
(***************************************************************************)
(* Verification model of dusk-api: the object control block (reference     *)
(* count and read/write lock word of ObjCore), the Object handle, the       *)
(* plugin loader (FreightProxy::load and friends) and the catalog           *)
(* flattening of the Freight trait.                                         *)
(*                                                                         *)
(* The module holds several specifications over one set of variables; each *)
(* specification moves only the variables of its own part and leaves the   *)
(* others at their initial value:                                          *)
(*   SpecLock    the lock word under concurrent lock/unlock calls          *)
(*   SpecLockFair the blocking acquires, threads scheduled fairly          *)
(*   SpecRc      the reference count under concurrent clone/drop           *)
(*   SpecAccess  payload reads and writes through Object's public API      *)
(*   SpecGuard   payload reads and writes through guards only              *)
(*   SpecLoad    the loader                                                *)
(*   SpecFlat    catalog flattening of a declared module tree              *)
(*   SpecProxy   catalog queries on a FreightProxy                         *)
(*   SpecLookup  the same, with the lookups the Freight trait provides    *)
(*   SpecObjects handles to containers of payload U8: new, clone, drop,    *)
(*               get, set, dk_dump, dk_load                                *)
(*   SpecVersion the comparisons of Versions                               *)
(*   SpecCounters one control block with its counters raised to the cap    *)
(*   SpecDrop    a loaded FreightProxy queried and then dropped            *)
(*   SpecShared  guards on the handles of one container under clone/drop   *)
(***************************************************************************)
EXTENDS Integers, Sequences, FiniteSets, TLC

(***************************************************************************)
(* Bounds of the model.                                                    *)
(***************************************************************************)
\* width of usize in bits (64 on the usual target), scaled down
WordBits == 3
\* number of threads sharing one control block
NThreads == 2
\* how many shared holds one thread takes at most at a time
MaxHold == 2
\* how many clones of the original Object are made at most
MaxClones == 2
\* how many times a plugin's register function calls register_freight at most
MaxRegisterCalls == 2
\* the payload values (a u8 in the U8 payload) run from 0 to MaxByte
MaxByte == 1
\* module ids and entity ids run from 0 to MaxId
MaxId == 3
\* how many times the implementor behind a living proxy is replaced at most
MaxChanges == 1
\* how many Object handles exist at most at a time
MaxObHandles == 2
\* the four numbers of a Version run from 0 to MaxVersionNumber
MaxVersionNumber == 1

USIZE_MOD == 2 ^ WordBits
\* isize::MAX as usize
ISIZE_MAX == 2 ^ (WordBits - 1) - 1
Word == 0 .. (USIZE_MOD - 1)
Threads == 1 .. NThreads

VARIABLES
    \* ---- ObjCore.lck and the threads calling the DkRWLock methods
    lck,        \* ObjCore.lck, the lock word
    lk_pc,      \* per thread: position inside a lock call
    lk_op,      \* per thread: the call in progress
    lk_old,     \* per thread: the local oldlck
    held,       \* per thread: holds acquired and not yet released
    lk_last,    \* the last call that returned: thread, op, result, word seen, word left
    \* ---- ObjCore.rc and the Object handles to one container
    rc,         \* ObjCore.rc, the reference count
    hs,         \* per handle: "none" (not created), "live", "dropping" (inside drop), "gone"
    h_old,      \* per handle inside drop: what dk_decref returned
    freed,      \* how many times the container was freed (Box::from_raw dropped)
    n_clones,   \* N: how many clones this run makes
    \* ---- FreightProxy::load, load_from_declaration, load_from_declaration_no_vcheck
    ld_pc,      \* position inside the load call
    ld_entry,   \* the entry point that was called
    ld_in,      \* its input: the library at the path and the declaration it exports
    lib_mapped, \* whether the OS has the library mapped (libloading::Library alive)
    reg_calls,  \* how many times declaration.register was invoked by this call
    proxy,      \* the FreightProxy under construction or returned
    ld_ret,     \* what the call returned
    \* ---- payload access through Object handles, one handle per thread
    data,       \* U8.data, the payload of the shared container
    acc,        \* per thread: payload access in progress, "none", "read" or "write"
    acc_api,    \* per thread: the Object method making that access
    wr_val,     \* per thread: the value being written
    guard,      \* per thread: the live guards on its handle, sh ObjGuards and ex ObjGuardMuts
    \* ---- catalog flattening
    freight,    \* what the plugin's Freight declares: top_modules() and get_operator_list()
    fl_call,    \* the flattening method called last
    fl_ret,     \* what that call returned
    \* ---- a FreightProxy queried by the host program
    px_mem,     \* the memoized fields of the proxy
    px_call,    \* the query made last: method and argument
    px_ret,     \* what that query returned
    px_ran,     \* the flattening methods of the implementor that query ran
    px_changes, \* how many times the implementor was replaced
    px_focus,   \* the kind of catalog this run works on
    \* ---- Objects: handles to containers on the heap, called by one thread
    ob_heap,    \* per container: whether it is allocated, U8.data, ObjCore.rc, ObjCore.lck
                \* (the lock word is not taken in this part: see lck)
    ob_ptr,     \* per handle: Object.data, the container pointed to (0: no such handle)
    ob_from,    \* per handle: the container made by the Object::new it descends from
    ob_last,    \* the last call on a handle: method, handle, arguments, result
    \* ---- Version values under comparison
    ver_a, ver_b,  \* two Versions, self and other
    ver_out,    \* the comparison called last on them and what it returned
    \* ---- One control block whose counters are driven to the cap
    ct_rc,      \* ObjCore.rc
    ct_lck,     \* ObjCore.lck
    ct_out,     \* the call made last on it: the counter before, the result
    \* ---- the destruction of a FreightProxy that load returned
    dp_next,    \* how many fields of the proxy have been dropped (0: the proxy is alive)
    dp_mapped,  \* whether the library of the proxy is mapped
    dp_late,    \* the fields whose plugin-made value was destroyed after the unmapping
    dp_fault    \* whether such a destruction has brought the process down

lockVars == <<lck, lk_pc, lk_op, lk_old, held, lk_last>>
rcVars == <<rc, hs, h_old, freed, n_clones>>
loadVars == <<ld_pc, ld_entry, ld_in, lib_mapped, reg_calls, proxy, ld_ret>>

accVars == <<data, acc, acc_api, wr_val, guard>>
flatVars == <<freight, fl_call, fl_ret>>
proxyVars == <<px_mem, px_call, px_ret, px_ran, px_changes, px_focus>>
objVars == <<ob_heap, ob_ptr, ob_from, ob_last>>
verVars == <<ver_a, ver_b, ver_out>>
ctVars == <<ct_rc, ct_lck, ct_out>>
dropVars == <<dp_next, dp_mapped, dp_late, dp_fault>>

vars ==
    <<lockVars, rcVars, loadVars, accVars, flatVars, proxyVars, objVars, verVars, ctVars,
      dropVars>>

\* a step of one part leaves the other parts alone
LockOnly ==
    UNCHANGED <<rcVars, loadVars, accVars, flatVars, proxyVars, objVars, verVars, ctVars,
                dropVars>>
RcOnly ==
    UNCHANGED <<lockVars, loadVars, accVars, flatVars, proxyVars, objVars, verVars, ctVars,
                dropVars>>
LoadOnly ==
    UNCHANGED <<lockVars, rcVars, accVars, flatVars, proxyVars, objVars, verVars, ctVars,
                dropVars>>
AccessOnly ==
    UNCHANGED <<rcVars, loadVars, flatVars, proxyVars, objVars, verVars, ctVars,
                dropVars>>
FlatOnly ==
    UNCHANGED <<lockVars, rcVars, loadVars, accVars, proxyVars, objVars, verVars, ctVars,
                dropVars>>
ProxyOnly ==
    UNCHANGED <<lockVars, rcVars, loadVars, accVars, objVars, verVars, ctVars,
                dropVars>>
ObjectOnly ==
    UNCHANGED <<lockVars, rcVars, loadVars, accVars, flatVars, proxyVars, verVars, ctVars,
                dropVars>>
VersionOnly ==
    UNCHANGED <<lockVars, rcVars, loadVars, accVars, flatVars, proxyVars, objVars, ctVars,
                dropVars>>
CountersOnly ==
    UNCHANGED <<lockVars, rcVars, loadVars, accVars, flatVars, proxyVars, objVars, verVars,
                dropVars>>
DropOnly ==
    UNCHANGED <<lockVars, rcVars, loadVars, accVars, objVars, verVars, ctVars>>

(***************************************************************************)
(* ObjCore: the lock word                                                  *)
(***************************************************************************)

\* AtomicUsize::compare_exchange: the new word and whether the exchange took place
compare_exchange(cur, expected, new) ==
    IF cur = expected THEN [ok |-> TRUE, val |-> new]
                      ELSE [ok |-> FALSE, val |-> cur]

\* ObjCore::try_lock, the checks on the loaded word before the exchange
try_lock_check(oldlck) ==
    IF oldlck >= ISIZE_MAX THEN "OverflowError"
    ELSE IF oldlck = 1 THEN "false"
    ELSE IF oldlck % 2 # 0 THEN "RuntimeError"
    ELSE "cas"

\* (mutant) the shared acquire counts a reader as 1 instead of 2
try_lock_cas_add1(cur, oldlck) == compare_exchange(cur, oldlck, (oldlck + 1) % USIZE_MOD)

\* ObjCore::try_lock, the exchange oldlck -> oldlck + 2
try_lock_cas(cur, oldlck) == compare_exchange(cur, oldlck, (oldlck + 2) % USIZE_MOD)

\* (mutant) the exclusive acquire stores 1 whatever the word holds
try_lock_ex_cas_swap(cur) == [ok |-> TRUE, val |-> 1]

\* ObjCore::try_lock_ex, the exchange 0 -> 1
try_lock_ex_cas(cur) == compare_exchange(cur, 0, 1)

\* (mutant) unlock takes every locked word for an exclusive lock
unlock_check_always1(oldlck) ==
    IF oldlck = 0 THEN [err |-> "RuntimeError", difference |-> 0]
    ELSE [err |-> "none", difference |-> 1]

\* ObjCore::unlock, the checks on the loaded word: an error or the difference
unlock_check(oldlck) ==
    IF oldlck = 0 THEN [err |-> "RuntimeError", difference |-> 0]
    ELSE IF oldlck = 1 THEN [err |-> "none", difference |-> 1]
    ELSE IF oldlck % 2 = 0 THEN [err |-> "none", difference |-> 2]
    ELSE [err |-> "RuntimeError", difference |-> 0]

\* (mutant) the release takes 1 from the word whatever kind of hold it is
unlock_cas_minus1(cur, oldlck) == compare_exchange(cur, oldlck, oldlck - 1)

\* ObjCore::unlock, the exchange oldlck -> oldlck - difference
unlock_cas(cur, oldlck) ==
    compare_exchange(cur, oldlck, oldlck - unlock_check(oldlck).difference)

\* dk_try_lock, dk_try_lock_ex and dk_unlock run without interference on the word w
dk_try_lock_seq(w) ==
    LET c == try_lock_check(w) IN
    IF c = "cas" THEN [res |-> "true", lck |-> try_lock_cas(w, w).val]
                 ELSE [res |-> c, lck |-> w]

dk_try_lock_ex_seq(w) ==
    LET r == try_lock_ex_cas(w) IN
    [res |-> IF r.ok THEN "true" ELSE "false", lck |-> r.val]

dk_unlock_seq(w) ==
    LET c == unlock_check(w) IN
    IF c.err = "none" THEN [res |-> "Ok", lck |-> unlock_cas(w, w).val]
                      ELSE [res |-> c.err, lck |-> w]

NoCall == [t |-> 0, op |-> "none", res |-> "none", pre |-> 0, post |-> 0]

InitLock ==
    /\ lck = 0
    /\ lk_pc = [t \in Threads |-> "idle"]
    /\ lk_op = [t \in Threads |-> "none"]
    /\ lk_old = [t \in Threads |-> 0]
    /\ held = [t \in Threads |-> [sh |-> 0, ex |-> 0]]
    /\ lk_last = NoCall

\* a call of thread t returns res, having seen the word pre and left it post
Return(t, op, res, pre, post) ==
    /\ lk_last' = [t |-> t, op |-> op, res |-> res, pre |-> pre, post |-> post]
    /\ lk_pc' = [lk_pc EXCEPT ![t] = "idle"]
    /\ lk_op' = [lk_op EXCEPT ![t] = "none"]
    /\ lk_old' = [lk_old EXCEPT ![t] = 0]

\* (mutant) the loop gives up after the sleep and returns false
Retry_gives_up(t, pcnext) ==
    /\ lk_pc' = [lk_pc EXCEPT ![t] = "idle"]
    /\ lk_old' = [lk_old EXCEPT ![t] = 0]
    /\ lk_last' = [t |-> t, op |-> "lock", res |-> "false", pre |-> lck, post |-> lck]

\* (mutant) the loop goes to sleep and never tries again
Retry_sleeps_on(t, pcnext) ==
    /\ lk_pc' = [lk_pc EXCEPT ![t] = "asleep"]
    /\ lk_old' = [lk_old EXCEPT ![t] = 0]
    /\ UNCHANGED <<lk_last>>

\* dk_lock: try_lock returned false, sleep LOCK_NANO_SLEEP and try again
Retry(t, pcnext) ==
    /\ lk_pc' = [lk_pc EXCEPT ![t] = pcnext]
    /\ lk_old' = [lk_old EXCEPT ![t] = 0]
    /\ UNCHANGED <<lk_last>>

\* ObjCore::try_lock as called by dk_try_lock (op "try_lock") or inside the
\* loop of ObjCore::lock (op "lock"): the load of the word and the checks on
\* it, in a new call or in the next round of the loop
try_lock_load(t, op) ==
    /\ \/ lk_pc[t] = "idle" /\ held[t].sh < MaxHold
       \/ lk_pc[t] = "tl_load" /\ lk_op[t] = op
    /\ LET c == try_lock_check(lck) IN
       IF c = "cas"
       THEN /\ lk_pc' = [lk_pc EXCEPT ![t] = "tl_cas"]
            /\ lk_op' = [lk_op EXCEPT ![t] = op]
            /\ lk_old' = [lk_old EXCEPT ![t] = lck]
            /\ UNCHANGED <<lk_last>>
       ELSE IF c = "false" /\ op = "lock"
       THEN /\ Retry(t, "tl_load")
            /\ lk_op' = [lk_op EXCEPT ![t] = op]
       ELSE Return(t, op, c, lck, lck)
    /\ UNCHANGED <<lck, held>>

\* ObjCore::try_lock: the compare_exchange; on failure the loop goes round
try_lock_exchange(t) ==
    /\ lk_pc[t] = "tl_cas"
    /\ LET r == try_lock_cas(lck, lk_old[t]) IN
       /\ lck' = r.val
       /\ IF r.ok
          THEN /\ Return(t, lk_op[t], "true", lck, r.val)
               /\ held' = [held EXCEPT ![t].sh = @ + 1]
          ELSE /\ lk_pc' = [lk_pc EXCEPT ![t] = "tl_load"]
               /\ UNCHANGED <<lk_op, lk_old, lk_last, held>>

\* ObjCore::try_lock_ex: one compare_exchange
try_lock_ex(t) ==
    /\ lk_pc[t] = "idle"
    /\ LET r == try_lock_ex_cas(lck) IN
       /\ lck' = r.val
       /\ Return(t, "try_lock_ex", IF r.ok THEN "true" ELSE "false", lck, r.val)
       /\ held' = [held EXCEPT ![t].ex = IF r.ok THEN @ + 1 ELSE @]

\* ObjCore::lock_ex: one round of the loop, try_lock_ex and on false the sleep
lock_ex(t) ==
    /\ lk_pc[t] = "idle" \/ (lk_pc[t] = "le_try" /\ lk_op[t] = "lock_ex")
    /\ LET r == try_lock_ex_cas(lck) IN
       /\ lck' = r.val
       /\ IF r.ok
          THEN /\ Return(t, "lock_ex", "true", lck, r.val)
               /\ held' = [held EXCEPT ![t].ex = @ + 1]
          ELSE /\ Retry(t, "le_try")
               /\ lk_op' = [lk_op EXCEPT ![t] = "lock_ex"]
               /\ UNCHANGED held

\* ObjCore::unlock: the load of the word and the checks on it, in a new call
\* or in the next round of the loop.  A thread releases a hold it has, or
\* calls unlock on an unlocked control block.
unlock_load(t) ==
    /\ \/ lk_pc[t] = "idle" /\ (held[t].sh + held[t].ex > 0 \/ lck = 0)
       \/ lk_pc[t] = "un_load"
    /\ LET c == unlock_check(lck) IN
       IF c.err = "none"
       THEN /\ lk_pc' = [lk_pc EXCEPT ![t] = "un_cas"]
            /\ lk_op' = [lk_op EXCEPT ![t] = "unlock"]
            /\ lk_old' = [lk_old EXCEPT ![t] = lck]
            /\ UNCHANGED <<lk_last>>
       ELSE Return(t, "unlock", c.err, lck, lck)
    /\ UNCHANGED <<lck, held>>

\* ObjCore::unlock: the compare_exchange; on failure the loop goes round
unlock_exchange(t) ==
    /\ lk_pc[t] = "un_cas"
    /\ LET r == unlock_cas(lck, lk_old[t]) IN
       /\ lck' = r.val
       /\ IF r.ok
          THEN /\ Return(t, "unlock", "Ok", lck, r.val)
               /\ held' = [held EXCEPT ![t] =
                             IF lk_old[t] = 1 THEN [@ EXCEPT !.ex = @ - 1]
                                              ELSE [@ EXCEPT !.sh = @ - 1]]
          ELSE /\ lk_pc' = [lk_pc EXCEPT ![t] = "un_load"]
               /\ UNCHANGED <<lk_op, lk_old, lk_last, held>>

\* the DkRWLock methods called directly by thread t
TryLockLoad(t) == (\E op \in {"try_lock", "lock"} : try_lock_load(t, op)) /\ LockOnly
TryLockCas(t) == try_lock_exchange(t) /\ LockOnly
TryLockEx(t) == try_lock_ex(t) /\ LockOnly
LockEx(t) == lock_ex(t) /\ LockOnly
UnlockLoad(t) == unlock_load(t) /\ LockOnly
UnlockCas(t) == unlock_exchange(t) /\ LockOnly

NextLock ==
    \E t \in Threads :
        \/ TryLockLoad(t)
        \/ TryLockCas(t)
        \/ TryLockEx(t)
        \/ LockEx(t)
        \/ UnlockLoad(t)
        \/ UnlockCas(t)

(***************************************************************************)
(* ObjCore: the reference count, Object::clone and Object::drop            *)
(***************************************************************************)
Handles == 0 .. MaxClones

\* (mutant) the overflow check lets the cap itself through
incref_above_cap(cur) ==
    [rc |-> (cur + 1) % USIZE_MOD,
     old |-> cur,
     err |-> IF cur > ISIZE_MAX THEN "OverflowError" ELSE "none"]

\* (mutant) the increment only reads the count
incref_uncounted(cur) == [rc |-> cur, old |-> cur, err |-> "none"]

\* ObjCore::incref: fetch_add(1), then the overflow check on the old value
incref(cur) ==
    [rc |-> (cur + 1) % USIZE_MOD,
     old |-> cur,
     err |-> IF cur >= ISIZE_MAX THEN "OverflowError" ELSE "none"]

\* (mutant) the decrement only reads the count
decref_load_only(cur) == [rc |-> cur, old |-> cur]

\* ObjCore::decref: fetch_sub(1), returns the old value
decref(cur) == [rc |-> (cur - 1) % USIZE_MOD, old |-> cur]

\* (mutant) drop frees as soon as at most one other handle is left
drop_is_last_le2(old_rc) == old_rc <= 2

\* Object::drop: the container is freed iff dk_decref returned 1
drop_is_last(old_rc) == old_rc = 1

InitRcIdle ==
    /\ rc = 1
    /\ hs = [h \in Handles |-> IF h = 0 THEN "live" ELSE "none"]
    /\ h_old = [h \in Handles |-> 0]
    /\ freed = 0

\* Object::new: the count starts at 1 with the one handle; N clones are to come
InitRc ==
    /\ InitRcIdle
    /\ n_clones \in 0 .. MaxClones

\* Object::clone of the live handle src, giving the handle new.  An
\* OverflowError of dk_incref is unwrapped: the clone panics after the
\* fetch_add and yields no handle.
Clone(src, new) ==
    /\ hs[src] = "live"
    /\ hs[new] = "none"
    /\ \A h \in Handles : h < new => hs[h] # "none"
    /\ new <= n_clones
    /\ LET r == incref(rc) IN
       /\ rc' = r.rc
       /\ hs' = [hs EXCEPT ![new] = IF r.err = "none" THEN "live" ELSE "gone"]
    /\ UNCHANGED <<h_old, freed, n_clones>>
    /\ RcOnly

\* Object::drop, first half: dk_decref
DropDecref(h) ==
    /\ hs[h] = "live"
    /\ LET r == decref(rc) IN
       /\ rc' = r.rc
       /\ h_old' = [h_old EXCEPT ![h] = r.old]
    /\ hs' = [hs EXCEPT ![h] = "dropping"]
    /\ UNCHANGED <<freed, n_clones>>
    /\ RcOnly

\* Object::drop, second half: return, or fence and free the container
DropFinish(h) ==
    /\ hs[h] = "dropping"
    /\ freed' = IF drop_is_last(h_old[h]) THEN freed + 1 ELSE freed
    /\ hs' = [hs EXCEPT ![h] = "gone"]
    /\ UNCHANGED <<rc, h_old, n_clones>>
    /\ RcOnly

NextRc ==
    \/ \E src, new \in Handles : Clone(src, new)
    \/ \E h \in Handles : DropDecref(h)
    \/ \E h \in Handles : DropFinish(h)

(***************************************************************************)
(* FreightProxy: loading a plugin                                          *)
(***************************************************************************)
\* the host's own version strings (env!("RUSTC_VERSION"), env!("CARGO_PKG_VERSION"))
RUSTC_VERSION == "rustc 1.50.0"
API_VERSION == "0.2.0"
\* the strings a declaration may carry in either field
VersionStrings == {RUSTC_VERSION, API_VERSION, "rustc 1.49.0"}

\* a FreightDeclaration: the two version strings and what its register
\* function does with the registrar (how often it calls register_freight)
FreightVersions == {"0.1.0", "0.2.0"}
FreightNames == {"plugin", "other"}

Declarations ==
    [rustc_version : VersionStrings, api_version : VersionStrings,
     freight_version : FreightVersions, backwards_compat_version : FreightVersions,
     name : FreightNames, registers : 0 .. MaxRegisterCalls]

\* what load is given: whether the path opens, whether the library exports
\* freight_declaration, and the declaration read from it
LoadInputs == [path_ok : BOOLEAN, symbol_ok : BOOLEAN, decl : Declarations]

NoProxy ==
    [exists |-> FALSE, freight |-> "none", lib |-> FALSE,
     name |-> "", version |-> "", backwards_compat_version |-> ""]
NoInput ==
    [path_ok |-> FALSE, symbol_ok |-> FALSE,
     decl |-> [rustc_version |-> "", api_version |-> "", freight_version |-> "",
               backwards_compat_version |-> "", name |-> "", registers |-> 0]]

\* (mutant) the two versions of the declaration stored in each other's field
new_proxy_swapped(declaration, f, lib) ==
    [exists |-> TRUE, freight |-> f, lib |-> lib,
     name |-> declaration.name,
     version |-> declaration.backwards_compat_version,
     backwards_compat_version |-> declaration.freight_version]

\* the FreightProxy that load_from_declaration_no_vcheck builds from the
\* declaration, holding the implementor f and, set by load, the library
new_proxy(declaration, f, lib) ==
    [exists |-> TRUE, freight |-> f, lib |-> lib,
     name |-> declaration.name,
     version |-> declaration.freight_version,
     backwards_compat_version |-> declaration.backwards_compat_version]

\* (mutant) load returns the proxy without storing its lib in it
set_lib_forgotten(p) == [p EXCEPT !.lib = FALSE]

\* FreightProxy::load, "result.lib = Some(lib)": the proxy as load returns it
set_lib(p) == p

\* Rc<Library>: the library is mapped while a holder of the Rc is left, the
\* local lib of a running load or the field lib of a proxy
library_mapped(local, p) == local \/ (p.exists /\ p.lib)

\* (mutant) only the compiler version is compared
version_check_rustc_only(declaration) ==
    IF declaration.rustc_version # RUSTC_VERSION THEN "ImportError"
    ELSE "none"

\* load_from_declaration: the two comparisons before the registration
version_check(declaration) ==
    IF declaration.rustc_version # RUSTC_VERSION THEN "ImportError"
    ELSE IF declaration.api_version # API_VERSION THEN "ImportError"
    ELSE "none"

\* FreightProxy::register_freight called n times on a proxy holding f
register_freight(f, n) == IF n > 0 THEN "Plugin" ELSE f

InitLoad ==
    /\ ld_pc = "idle"
    /\ ld_entry = "none"
    /\ ld_in = NoInput
    /\ lib_mapped = FALSE
    /\ reg_calls = 0
    /\ proxy = NoProxy
    /\ ld_ret = "none"

\* the call returns an error; load's local lib, the only handle, is dropped
LoadFail(err) ==
    /\ ld_pc' = "done"
    /\ ld_ret' = err
    /\ lib_mapped' = library_mapped(FALSE, NoProxy)
    /\ proxy' = NoProxy

\* FreightProxy::load: libloading::Library::new(lib_path)
Load(in) ==
    /\ ld_pc = "idle"
    /\ ld_entry' = "load"
    /\ ld_in' = in
    /\ IF in.path_ok
       THEN /\ ld_pc' = "opened"
            /\ lib_mapped' = library_mapped(TRUE, proxy)
            /\ UNCHANGED <<proxy, ld_ret>>
       ELSE LoadFail("LoadingError")
    /\ UNCHANGED reg_calls
    /\ LoadOnly

\* FreightProxy::load: lib.get(b"freight_declaration\0") and decl.read()
LoadGetDeclaration ==
    /\ ld_pc = "opened"
    /\ IF ld_in.symbol_ok
       THEN /\ ld_pc' = "decl"
            /\ UNCHANGED <<lib_mapped, proxy, ld_ret>>
       ELSE LoadFail("LoadingError")
    /\ UNCHANGED <<ld_entry, ld_in, reg_calls>>
    /\ LoadOnly

\* FreightProxy::load_from_declaration called directly with a declaration
LoadFromDeclaration(decl) ==
    /\ ld_pc = "idle"
    /\ ld_entry' = "load_from_declaration"
    /\ ld_in' = [path_ok |-> FALSE, symbol_ok |-> FALSE, decl |-> decl]
    /\ ld_pc' = "decl"
    /\ UNCHANGED <<lib_mapped, reg_calls, proxy, ld_ret>>
    /\ LoadOnly

\* load_from_declaration: compare the version strings, return ImportError
\* or go on to load_from_declaration_no_vcheck
CheckVersions ==
    /\ ld_pc = "decl"
    /\ LET e == version_check(ld_in.decl) IN
       IF e = "none"
       THEN /\ ld_pc' = "construct"
            /\ UNCHANGED <<lib_mapped, proxy, ld_ret>>
       ELSE LoadFail(e)
    /\ UNCHANGED <<ld_entry, ld_in, reg_calls>>
    /\ LoadOnly

\* FreightProxy::load_from_declaration_no_vcheck called directly
LoadNoVcheck(decl) ==
    /\ ld_pc = "idle"
    /\ ld_entry' = "load_from_declaration_no_vcheck"
    /\ ld_in' = [path_ok |-> FALSE, symbol_ok |-> FALSE, decl |-> decl]
    /\ ld_pc' = "construct"
    /\ UNCHANGED <<lib_mapped, reg_calls, proxy, ld_ret>>
    /\ LoadOnly

\* load_from_declaration_no_vcheck: build the proxy around EmptyFreight, call
\* (declaration.register)(&mut result) and return; load then moves its lib,
\* the one holder of the library, into the proxy and returns
Register ==
    /\ ld_pc = "construct"
    /\ reg_calls' = reg_calls + 1
    /\ proxy' = set_lib(new_proxy(ld_in.decl,
                                  register_freight("EmptyFreight", ld_in.decl.registers),
                                  ld_entry = "load"))
    /\ lib_mapped' = library_mapped(FALSE, proxy')
    /\ ld_ret' = "Ok"
    /\ ld_pc' = "done"
    /\ UNCHANGED <<ld_entry, ld_in>>
    /\ LoadOnly

\* the caller drops what the call returned (the proxy and with it its library)
LoadDone ==
    /\ ld_pc = "done"
    /\ ld_pc' = "idle"
    /\ ld_entry' = "none"
    /\ ld_in' = NoInput
    /\ lib_mapped' = library_mapped(FALSE, NoProxy)
    /\ reg_calls' = 0
    /\ proxy' = NoProxy
    /\ ld_ret' = "none"
    /\ LoadOnly

NextLoad ==
    \/ \E in \in LoadInputs : Load(in)
    \/ LoadGetDeclaration
    \/ \E decl \in Declarations : LoadFromDeclaration(decl)
    \/ CheckVersions
    \/ \E decl \in Declarations : LoadNoVcheck(decl)
    \/ Register
    \/ LoadDone

(***************************************************************************)
(* Object: access to the payload.  Every thread owns one handle (a clone)  *)
(* to the same container.                                                  *)
(***************************************************************************)
Bytes == 0 .. MaxByte
\* the methods of Object that read the payload without taking a guard
ReadApis == {"get_underlying_data", "dk_get", "dk_dump"}
\* the methods of Object that write the payload without taking a guard
WriteApis == {"set_underlying_data", "dk_set", "dk_load"}

\* no guard is alive
NoGuard == [sh |-> 0, ex |-> 0]

\* what `inner.dk_lock()?; Ok(ObjGuard { .. })` leaves of the guards g of a
\* thread once the acquire has returned res: the ? returns an error early
get_ref_guard_on_return(g, returned, res) ==
    IF returned THEN [g EXCEPT !.sh = @ + 1] ELSE g

get_ref_guard(g, returned, res) ==
    IF returned /\ res = "true" THEN [g EXCEPT !.sh = @ + 1] ELSE g

\* the same for `inner.dk_lock_ex()?; Ok(ObjGuardMut { .. })`
get_mut_guard(g, returned, res) ==
    IF returned /\ res = "true" THEN [g EXCEPT !.ex = @ + 1] ELSE g

\* Drop for ObjGuard / ObjGuardMut: the guard is gone when dk_unlock has
\* returned, whatever it returned
drop_guard(g, returned) ==
    IF ~returned THEN g
    ELSE IF g.ex > 0 THEN [g EXCEPT !.ex = @ - 1] ELSE [g EXCEPT !.sh = @ - 1]

InitAccess ==
    /\ data = 0
    /\ acc = [t \in Threads |-> "none"]
    /\ acc_api = [t \in Threads |-> "none"]
    /\ wr_val = [t \in Threads |-> 0]
    /\ guard = [t \in Threads |-> NoGuard]

\* thread t is between two calls on its handle
Quiet(t) == lk_pc[t] = "idle" /\ acc[t] = "none"

\* Object::get_underlying_data, dk_get, dk_dump: as_ref() on the raw pointer
\* and the payload's own dk_get / dk_dump; no lock call is made.  They take
\* &self, so a live ObjGuardMut (which borrows the handle mutably) excludes them.
ReadBegin(t, api) ==
    /\ Quiet(t)
    /\ guard[t].ex = 0
    /\ acc' = [acc EXCEPT ![t] = "read"]
    /\ acc_api' = [acc_api EXCEPT ![t] = api]
    /\ UNCHANGED <<data, wr_val, guard, lockVars>>
    /\ AccessOnly

\* Object::set_underlying_data, dk_set, dk_load: as_mut() on the raw pointer
\* and the payload's own dk_set / dk_load; no lock call is made.  They take
\* &mut self, so any live guard on this handle excludes them.
WriteBegin(t, api, v) ==
    /\ Quiet(t)
    /\ guard[t] = NoGuard
    /\ acc' = [acc EXCEPT ![t] = "write"]
    /\ acc_api' = [acc_api EXCEPT ![t] = api]
    /\ wr_val' = [wr_val EXCEPT ![t] = v]
    /\ UNCHANGED <<data, guard, lockVars>>
    /\ AccessOnly

\* Deref for ObjGuard / ObjGuardMut: a read through a live guard
GuardDeref(t) ==
    /\ Quiet(t)
    /\ guard[t] # NoGuard
    /\ acc' = [acc EXCEPT ![t] = "read"]
    /\ acc_api' = [acc_api EXCEPT ![t] = "deref"]
    /\ UNCHANGED <<data, wr_val, guard, lockVars>>
    /\ AccessOnly

\* DerefMut for ObjGuardMut: a write through a live write guard
GuardDerefMut(t, v) ==
    /\ Quiet(t)
    /\ guard[t].ex > 0
    /\ acc' = [acc EXCEPT ![t] = "write"]
    /\ acc_api' = [acc_api EXCEPT ![t] = "deref_mut"]
    /\ wr_val' = [wr_val EXCEPT ![t] = v]
    /\ UNCHANGED <<data, guard, lockVars>>
    /\ AccessOnly

\* the access of thread t ends; a write stores its value (U8::dk_set, U8::dk_load)
AccessEnd(t) ==
    /\ acc[t] # "none"
    /\ data' = IF acc[t] = "write" THEN wr_val[t] ELSE data
    /\ acc' = [acc EXCEPT ![t] = "none"]
    /\ acc_api' = [acc_api EXCEPT ![t] = "none"]
    /\ wr_val' = [wr_val EXCEPT ![t] = 0]
    /\ UNCHANGED <<guard, lockVars>>
    /\ AccessOnly

\* Object::get_ref: inner.dk_lock()?, the load and checks of one round.  It
\* takes &self, so other ObjGuards of the handle may be alive, an ObjGuardMut not.
GetRefLoad(t) ==
    /\ acc[t] = "none"
    /\ guard[t].ex = 0
    /\ try_lock_load(t, "lock")
    /\ guard' = [guard EXCEPT ![t] = get_ref_guard(@, lk_pc'[t] = "idle", lk_last'.res)]
    /\ UNCHANGED <<data, acc, acc_api, wr_val>>
    /\ AccessOnly

\* Object::get_ref: the compare_exchange of dk_lock, and Ok(ObjGuard) once it succeeds
GetRefCas(t) ==
    /\ try_lock_exchange(t)
    /\ guard' = [guard EXCEPT ![t] = get_ref_guard(@, lk_pc'[t] = "idle", lk_last'.res)]
    /\ UNCHANGED <<data, acc, acc_api, wr_val>>
    /\ AccessOnly

\* Object::get_mut: inner.dk_lock_ex()?, one round, and Ok(ObjGuardMut) once
\* it succeeds.  It takes &mut self, so no other guard of the handle is alive.
GetMut(t) ==
    /\ acc[t] = "none"
    /\ guard[t] = NoGuard
    /\ lock_ex(t)
    /\ guard' = [guard EXCEPT ![t] = get_mut_guard(@, lk_pc'[t] = "idle", lk_last'.res)]
    /\ UNCHANGED <<data, acc, acc_api, wr_val>>
    /\ AccessOnly

\* Drop for ObjGuard / ObjGuardMut: inner.dk_unlock(), the load and checks;
\* the result is ignored, so on an error the guard is gone all the same
GuardDropLoad(t) ==
    /\ acc[t] = "none"
    /\ guard[t] # NoGuard
    /\ unlock_load(t)
    /\ guard' = [guard EXCEPT ![t] = drop_guard(@, lk_pc'[t] = "idle")]
    /\ UNCHANGED <<data, acc, acc_api, wr_val>>
    /\ AccessOnly

\* Drop for ObjGuard / ObjGuardMut: the compare_exchange of dk_unlock
GuardDropCas(t) ==
    /\ unlock_exchange(t)
    /\ guard' = [guard EXCEPT ![t] = drop_guard(@, lk_pc'[t] = "idle")]
    /\ UNCHANGED <<data, acc, acc_api, wr_val>>
    /\ AccessOnly

NextAccess ==
    \E t \in Threads :
        \/ \E api \in ReadApis : ReadBegin(t, api)
        \/ \E api \in WriteApis, v \in Bytes : WriteBegin(t, api, v)
        \/ GuardDeref(t)
        \/ \E v \in Bytes : GuardDerefMut(t, v)
        \/ AccessEnd(t)
        \/ GetRefLoad(t)
        \/ GetRefCas(t)
        \/ GetMut(t)
        \/ GuardDropLoad(t)
        \/ GuardDropCas(t)

(***************************************************************************)
(* Catalog flattening: the default methods of the Freight trait that turn  *)
(* the declared module tree into the four by-id catalogs.                  *)
(*                                                                         *)
(* A Vec is a sequence; position i of a Vec is element i + 1 of the         *)
(* sequence.  A call ends in one of three ways: Ok with a catalog, Err with *)
(* an ImportError, or a panic of the calling thread.                        *)
(***************************************************************************)
Ok(val) == [kind |-> "Ok", val |-> val, msg |-> ""]
ImportError(msg) == [kind |-> "ImportError", val |-> <<>>, msg |-> msg]
\* Option::unwrap on None
Panic == [kind |-> "Panic", val |-> <<>>, msg |-> "called Option::unwrap() on a None value"]

Last(s) == s[Len(s)]
\* Vec::pop leaves all but the last element
Front(s) == SubSeq(s, 1, Len(s) - 1)

RECURSIVE Flatten(_)
\* the elements of a sequence of sequences, in iteration order of the nested for loops
Flatten(ss) == IF ss = <<>> THEN <<>> ELSE Head(ss) \o Flatten(Tail(ss))

\* <Function as Default>::default()
DefaultFunction == [name |-> "", fn_id |-> 0, callable |-> "EmptyCallable"]

U8_type_id == 0

\* <Type as Default>::default()
DefaultType ==
    [name |-> "u8", tp_id |-> U8_type_id, methods |-> <<>>, fields |-> <<>>,
     trait_implementations |-> <<>>, native_id |-> "U8"]

\* <TraitDefinition as Default>::default()
DefaultTraitDefinition == [name |-> "", td_id |-> 0]

\* <Module as Default>::default()
DefaultModule ==
    [name |-> "", md_id |-> 0, types |-> <<>>, functions |-> <<>>,
     submodules |-> <<>>, trait_definitions |-> <<>>, constants |-> <<>>]

\* for _i in result.len()..id { result.push(Default::default()) }
pad(result, id, default) ==
    result \o [i \in 1 .. (id - Len(result)) |-> default]

\* format!("{}::{}", a, b)
qualify(a, b) == a \o "::" \o b

\* format!("Several {} with same id ({}) found", what, id)
several(what, id) == "Several " \o what \o " with same id (" \o ToString(id) \o ") found"

RECURSIVE module_walk(_, _, _)
\* the while loop of get_module_list over one top module
module_walk(parents, par_progress, result) ==
    IF Len(parents) = 0 THEN Ok(result)
    ELSE
        LET cur == Last(parents)
            tmp_name == cur.name
        IN
        IF Len(par_progress) = 0 THEN Panic   \* par_progress.last().unwrap()
        ELSE IF Last(par_progress) < Len(cur.submodules) THEN
            LET sub == cur.submodules[Last(par_progress) + 1] IN
            IF sub.name = "" THEN ImportError("Modules can not have empty names")
            ELSE module_walk(
                    Append(parents, [sub EXCEPT !.name = qualify(tmp_name, sub.name)]),
                    Append([par_progress EXCEPT ![Len(par_progress)] = @ + 1], 0),
                    result)
        ELSE
            LET popped == Front(par_progress)
                md_id == cur.md_id
            IN
            IF md_id < Len(result) THEN
                IF result[md_id + 1].name # "" THEN
                    ImportError(several("modules", md_id))
                ELSE
                    \* continue: the module stays on the parents stack
                    module_walk(parents, popped, [result EXCEPT ![md_id + 1] = cur])
            ELSE
                module_walk(Front(parents), popped,
                            Append(pad(result, md_id, DefaultModule), cur))

RECURSIVE module_tops(_, _)
\* the for loop of get_module_list over the top modules
module_tops(tops, result) ==
    IF tops = <<>> THEN Ok(result)
    ELSE IF Head(tops).name = "" THEN ImportError("Modules can not have empty names")
    ELSE
        LET walked == module_walk(<<Head(tops)>>, <<0>>, result) IN
        IF walked.kind # "Ok" THEN walked ELSE module_tops(Tail(tops), walked.val)

get_module_list(f) == module_tops(f.top_modules, <<>>)

\* one entity met by the nested for loops of a flattening: the name as
\* declared (tested for emptiness), the error of an empty name, and the
\* clone that is collected (a type met by get_function_list collects nothing)
Met(declared, err, collects, clone) ==
    [declared |-> declared, err |-> err, collects |-> collects, clone |-> clone]

\* the functions of one type in the order get_function_list meets them
type_functions(module, def_type) ==
    <<Met(def_type.name, "Types can not have empty names", FALSE, DefaultFunction)>>
    \o [i \in 1 .. Len(def_type.methods) |->
            LET def_met == def_type.methods[i] IN
            Met(def_met.name, "Type methods can not have empty names", TRUE,
                [def_met EXCEPT !.name =
                    qualify(qualify(module.name, def_type.name), def_met.name)])]
    \o [i \in 1 .. Len(def_type.fields) |->
            LET def_fil == def_type.fields[i] IN
            Met(def_fil.name, "Type fields can not have empty names", TRUE,
                [def_fil EXCEPT !.name =
                    "@" \o qualify(qualify(module.name, def_type.name), def_fil.name)])]
    \o Flatten([j \in 1 .. Len(def_type.trait_implementations) |->
            LET def_trt == def_type.trait_implementations[j] IN
            [i \in 1 .. Len(def_trt.methods) |->
                LET def_met == def_trt.methods[i] IN
                Met(def_met.function.name, "Type methods can not have empty names", TRUE,
                    [def_met.function EXCEPT !.name =
                        qualify(qualify(module.name, def_type.name),
                                def_met.function.name)])]])

\* the functions of one module of the module catalog
module_functions(module) ==
    [i \in 1 .. Len(module.functions) |->
        LET def_fun == module.functions[i] IN
        Met(def_fun.name, "Functions can not have empty names", TRUE,
            [def_fun EXCEPT !.name = qualify(module.name, def_fun.name)])]
    \o [i \in 1 .. Len(module.constants) |->
        LET def_con == module.constants[i] IN
        Met(def_con.name, "Functions can not have empty names", TRUE,
            [def_con EXCEPT !.name = "@" \o qualify(module.name, def_con.name)])]
    \o Flatten([i \in 1 .. Len(module.types) |-> type_functions(module, module.types[i])])

\* everything the first pass of get_function_list meets, operators first
functions_met(f, all_modules) ==
    [i \in 1 .. Len(f.operators) |->
        Met(f.operators[i].name, "Operators can not have empty names", TRUE,
            f.operators[i])]
    \o Flatten([i \in 1 .. Len(all_modules) |-> module_functions(all_modules[i])])

RECURSIVE collect(_, _)
\* the first pass: result_unsorted, or the error of the first empty name
collect(met, result_unsorted) ==
    IF met = <<>> THEN Ok(result_unsorted)
    ELSE IF Head(met).declared = "" THEN ImportError(Head(met).err)
    ELSE collect(Tail(met),
                 IF Head(met).collects THEN Append(result_unsorted, Head(met).clone)
                 ELSE result_unsorted)

RECURSIVE place_functions(_, _)
\* the second pass of get_function_list: every function to the slot of its id
place_functions(result_unsorted, result) ==
    IF result_unsorted = <<>> THEN Ok(result)
    ELSE
        LET def_met == Head(result_unsorted) IN
        IF def_met.fn_id < Len(result) THEN
            IF def_met.name # "" THEN
                ImportError(several("functions", def_met.fn_id))
            ELSE place_functions(Tail(result_unsorted),
                                 [result EXCEPT ![def_met.fn_id + 1] = def_met])
        ELSE place_functions(Tail(result_unsorted),
                             Append(pad(result, def_met.fn_id, DefaultFunction), def_met))

get_function_list(f) ==
    LET all_modules == get_module_list(f) IN
    IF all_modules.kind # "Ok" THEN all_modules
    ELSE
        LET result_unsorted == collect(functions_met(f, all_modules.val), <<>>) IN
        IF result_unsorted.kind # "Ok" THEN result_unsorted
        ELSE place_functions(result_unsorted.val, <<>>)

\* the types of the module catalog in the order get_type_list meets them,
\* each with its declared name and its clone under the qualified name
types_met(all_modules) ==
    Flatten([m \in 1 .. Len(all_modules) |->
        LET module == all_modules[m] IN
        [i \in 1 .. Len(module.types) |->
            LET def_type == module.types[i] IN
            Met(def_type.name, "Types can not have empty names", TRUE,
                [def_type EXCEPT !.name = qualify(module.name, def_type.name)])]])

RECURSIVE place_types(_, _)
\* the loop body of get_type_list
place_types(met, result) ==
    IF met = <<>> THEN Ok(result)
    ELSE IF Head(met).declared = "" THEN ImportError(Head(met).err)
    ELSE
        LET def_type == Head(met).clone IN
        IF def_type.tp_id < Len(result) THEN
            IF def_type.name # "" THEN ImportError(several("types", def_type.tp_id))
            ELSE place_types(Tail(met), [result EXCEPT ![def_type.tp_id + 1] = def_type])
        ELSE place_types(Tail(met),
                         Append(pad(result, def_type.tp_id, DefaultType), def_type))

get_type_list(f) ==
    LET all_modules == get_module_list(f) IN
    IF all_modules.kind # "Ok" THEN all_modules
    ELSE place_types(types_met(all_modules.val), <<>>)

\* the trait definitions of the module catalog in the order
\* get_trait_definition_list meets them
traits_met(all_modules) ==
    Flatten([m \in 1 .. Len(all_modules) |->
        LET module == all_modules[m] IN
        [i \in 1 .. Len(module.trait_definitions) |->
            LET def_trt == module.trait_definitions[i] IN
            Met(def_trt.name, "Traits can not have empty names", TRUE,
                [def_trt EXCEPT !.name = qualify(module.name, def_trt.name)])]])

RECURSIVE place_traits(_, _)
\* the loop body of get_trait_definition_list
place_traits(met, result) ==
    IF met = <<>> THEN Ok(result)
    ELSE IF Head(met).declared = "" THEN ImportError(Head(met).err)
    ELSE
        LET def_trt == Head(met).clone IN
        IF def_trt.td_id < Len(result) THEN
            IF def_trt.name # "" THEN ImportError(several("traits", def_trt.td_id))
            ELSE place_traits(Tail(met), [result EXCEPT ![def_trt.td_id + 1] = def_trt])
        ELSE place_traits(Tail(met),
                          Append(pad(result, def_trt.td_id, DefaultTraitDefinition), def_trt))

get_trait_definition_list(f) ==
    LET all_modules == get_module_list(f) IN
    IF all_modules.kind # "Ok" THEN all_modules
    ELSE place_traits(traits_met(all_modules.val), <<>>)

\* Err(IndexError(..))
IndexError(msg) == [kind |-> "IndexError", val |-> <<>>, msg |-> msg]

\* format!("{} with index {} does not exist", what, id)
does_not_exist(what, id) == what \o " with index " \o ToString(id) \o " does not exist"

\* the two tests the by-id lookups make on a flattened list: the bound, then
\* the empty name of a placeholder
list_by_id(what, list, id) ==
    IF Len(list) <= id THEN IndexError(does_not_exist(what, id))
    ELSE IF list[id + 1].name = "" THEN IndexError(does_not_exist(what, id))
    ELSE Ok(list[id + 1])

\* a by-name lookup that reports an empty result as an IndexError
list_by_name_or_error(list, name) ==
    IF SelectSeq(list, LAMBDA e : e.name = name) = <<>>
    THEN IndexError("Nothing with name " \o name \o " exists")
    ELSE Ok(SelectSeq(list, LAMBDA e : e.name = name))

\* the entries of a flattened list that carry the name, in list order
list_by_name(list, name) == Ok(SelectSeq(list, LAMBDA e : e.name = name))

\* the default lookups of the Freight trait: each flattens anew
get_callable_list(f) ==
    LET list == get_function_list(f) IN
    IF list.kind # "Ok" THEN list
    ELSE Ok([i \in 1 .. Len(list.val) |-> list.val[i].callable])

get_callable_by_id(f, id) ==
    LET list == get_function_list(f) IN
    IF list.kind # "Ok" THEN list
    ELSE LET found == list_by_id("Callable", list.val, id) IN
         IF found.kind # "Ok" THEN found ELSE Ok(found.val.callable)

get_function_by_id(f, id) ==
    LET list == get_function_list(f) IN
    IF list.kind # "Ok" THEN list ELSE list_by_id("Function", list.val, id)

get_functions_by_name(f, name) ==
    LET list == get_function_list(f) IN
    IF list.kind # "Ok" THEN list ELSE list_by_name(list.val, name)

get_type_by_id(f, id) ==
    LET list == get_type_list(f) IN
    IF list.kind # "Ok" THEN list ELSE list_by_id("Type", list.val, id)

get_types_by_name(f, name) ==
    LET list == get_type_list(f) IN
    IF list.kind # "Ok" THEN list ELSE list_by_name(list.val, name)

\* the first type of the list with the native id
get_type_by_native_id(f, native_id) ==
    LET list == get_type_list(f) IN
    IF list.kind # "Ok" THEN list
    ELSE LET found == SelectSeq(list.val, LAMBDA e : e.native_id = native_id) IN
         IF found = <<>>
         THEN IndexError("Could not find type with native id " \o native_id \o " in list")
         ELSE Ok(Head(found))

get_trait_definition_by_id(f, id) ==
    LET list == get_trait_definition_list(f) IN
    IF list.kind # "Ok" THEN list ELSE list_by_id("Trait", list.val, id)

get_trait_definitions_by_name(f, name) ==
    LET list == get_trait_definition_list(f) IN
    IF list.kind # "Ok" THEN list ELSE list_by_name(list.val, name)

get_module_by_id(f, id) ==
    LET list == get_module_list(f) IN
    IF list.kind # "Ok" THEN list ELSE list_by_id("Module", list.val, id)

get_modules_by_name(f, name) ==
    LET list == get_module_list(f) IN
    IF list.kind # "Ok" THEN list ELSE list_by_name(list.val, name)

(***************************************************************************)
(* The declared trees.  A plugin's Freight answers top_modules() and        *)
(* get_operator_list() with what it declares; the model draws that          *)
(* declaration from two families: module forests of every shape and id      *)
(* assignment carrying one function, and two small forests carrying up to  *)
(* two entities of every kind.                                              *)
(***************************************************************************)
Ids == 0 .. MaxId
\* ids given to the entities of the second family: dense, and sparse up to MaxId
EntityIds == {0, 1, MaxId}

\* a forest of modules 1 .. n: shape[i] is the parent of module i, 0 for a top
\* module; siblings are declared in index order
Shapes ==
    { <<0>>, <<0, 0>>, <<0, 1>>,
      <<0, 0, 0>>, <<0, 1, 1>>, <<0, 1, 2>>, <<0, 1, 0>>, <<0, 0, 2>> }

ModuleNames == <<"a", "b", "c">>

EntityKinds ==
    {"operator", "function", "constant", "method", "field", "trait_method",
     "type", "trait_definition"}

\* the entities a forest of n modules can carry in slot k; an operator
\* belongs to the freight itself (host 0)
Entities(n, k) ==
    { [kind |-> kind, host |-> host, id |-> id, name |-> name, slot |-> k] :
        kind \in EntityKinds, host \in 0 .. n, id \in EntityIds,
        name \in (IF k = 1 THEN {"f", ""} ELSE {"f", "g"}) }

EntityLists(n) ==
    LET placed(k) == { e \in Entities(n, k) : (e.kind = "operator") <=> (e.host = 0) } IN
    {<<>>} \cup { <<e>> : e \in placed(1) }
           \cup { <<e1, e2>> : e1 \in placed(1), e2 \in placed(2) }

\* the Function an entity declares
function_of(e) ==
    [name |-> e.name, fn_id |-> e.id, callable |-> "callable" \o ToString(e.slot)]

\* the entities of one kind declared in module host, in declaration order
declared(ents, kind, host) ==
    SelectSeq(ents, LAMBDA e : e.kind = kind /\ e.host = host)

\* the Functions of one kind declared in module host
functions_declared(ents, kind, host) ==
    LET mine == declared(ents, kind, host) IN
    [i \in 1 .. Len(mine) |-> function_of(mine[i])]

\* the types of module i: the type that owns the methods, fields and trait
\* methods declared in the module, then the types declared as such
types_of(ents, i) ==
    LET methods == functions_declared(ents, "method", i)
        fields == functions_declared(ents, "field", i)
        trait_functions == functions_declared(ents, "trait_method", i)
        trait_methods ==
            [k \in 1 .. Len(trait_functions) |->
                [fn_trait_id |-> 0, function |-> trait_functions[k]]]
        owner ==
            [name |-> "T", tp_id |-> i - 1, methods |-> methods, fields |-> fields,
             trait_implementations |->
                IF trait_methods = <<>> THEN <<>>
                ELSE <<[name |-> "Tr", methods |-> trait_methods]>>,
             native_id |-> "T" \o ToString(i)]
        types == declared(ents, "type", i)
    IN
    (IF methods = <<>> /\ fields = <<>> /\ trait_methods = <<>> THEN <<>> ELSE <<owner>>)
    \o [k \in 1 .. Len(types) |->
            [name |-> types[k].name, tp_id |-> types[k].id, methods |-> <<>>,
             fields |-> <<>>, trait_implementations |-> <<>>,
             native_id |-> "N" \o ToString(types[k].slot)]]

RECURSIVE module_of(_, _, _, _, _)
\* module i of the forest with its submodules
module_of(shape, md_ids, unnamed, ents, i) ==
    LET subs == SelectSeq([j \in 1 .. Len(shape) |-> j], LAMBDA j : shape[j] = i)
        traits == declared(ents, "trait_definition", i)
    IN
    [name |-> IF unnamed = i THEN "" ELSE ModuleNames[i],
     md_id |-> md_ids[i],
     types |-> types_of(ents, i),
     functions |-> functions_declared(ents, "function", i),
     submodules |-> [k \in 1 .. Len(subs) |->
                        module_of(shape, md_ids, unnamed, ents, subs[k])],
     trait_definitions |->
        [k \in 1 .. Len(traits) |-> [name |-> traits[k].name, td_id |-> traits[k].id]],
     constants |-> functions_declared(ents, "constant", i)]

\* the Freight of a plugin declaring the forest and the entities
freight_of(shape, md_ids, unnamed, ents) ==
    LET tops == SelectSeq([j \in 1 .. Len(shape) |-> j], LAMBDA j : shape[j] = 0) IN
    [top_modules |-> [k \in 1 .. Len(tops) |->
                        module_of(shape, md_ids, unnamed, ents, tops[k])],
     operators |-> functions_declared(ents, "operator", 0)]

\* every forest, every id assignment, at most one module without a name, and
\* one function f with id 0 in the last module
ForestFreights ==
    UNION { { freight_of(shape, md_ids, unnamed,
                         <<[kind |-> "function", host |-> Len(shape), id |-> 0,
                            name |-> "f", slot |-> 1]>>) :
                md_ids \in [1 .. Len(shape) -> Ids], unnamed \in 0 .. Len(shape) } :
            shape \in Shapes }

\* one module, and a module with a submodule of a smaller id, with up to two
\* entities of any kind anywhere
EntityFreights ==
    { freight_of(<<0>>, <<0>>, 0, ents) : ents \in EntityLists(1) }
    \cup { freight_of(<<0, 1>>, <<1, 0>>, 0, ents) : ents \in EntityLists(2) }

\* a module with a submodule of a larger id, and two named callables of any
\* two sources anywhere
StackedFreights ==
    { freight_of(<<0, 1>>, <<0, 1>>, 0, ents) :
        ents \in { l \in EntityLists(2) :
                      /\ Len(l) = 2
                      /\ \A i \in 1 .. 2 :
                            /\ l[i].kind \notin {"type", "trait_definition"}
                            /\ l[i].name # ""
                            /\ l[i].id \in {0, 1} } }

Freights == ForestFreights \cup EntityFreights \cup StackedFreights

NoReturn == [kind |-> "none", val |-> <<>>, msg |-> ""]

InitFlatIdle ==
    /\ fl_call = "none"
    /\ fl_ret = NoReturn

\* (mutant) a placeholder implementor that declares a module
EmptyFreight_one_module ==
    [top_modules |-> <<[name |-> "empty", md_id |-> 0, types |-> <<>>,
                        functions |-> <<>>, submodules |-> <<>>,
                        trait_definitions |-> <<>>, constants |-> <<>>]>>,
     operators |-> <<>>]

\* EmptyFreight, the implementor a new proxy holds: top_modules() is empty,
\* and so is the get_operator_list() the trait provides
EmptyFreight == [top_modules |-> <<>>, operators |-> <<>>]

InitFlat ==
    /\ freight \in Freights
    /\ InitFlatIdle

\* a flattening call returns; the declaration is not touched
returns(call, ret) ==
    /\ fl_call' = call
    /\ fl_ret' = ret
    /\ UNCHANGED freight

GetModuleList ==
    /\ returns("get_module_list", get_module_list(freight))
    /\ FlatOnly

GetFunctionList ==
    /\ returns("get_function_list", get_function_list(freight))
    /\ FlatOnly

GetTypeList ==
    /\ returns("get_type_list", get_type_list(freight))
    /\ FlatOnly

GetTraitDefinitionList ==
    /\ returns("get_trait_definition_list", get_trait_definition_list(freight))
    /\ FlatOnly

NextFlat ==
    \/ GetModuleList
    \/ GetFunctionList
    \/ GetTypeList
    \/ GetTraitDefinitionList

(***************************************************************************)
(* FreightProxy as a Freight: every query goes through the memoized        *)
(* fields of the proxy.  A query is a function of the memoized fields and  *)
(* of the registered implementor; it yields what the query returns, the   *)
(* memoized fields it leaves, and the flattening methods of the            *)
(* implementor it ran.                                                     *)
(***************************************************************************)
None == [some |-> FALSE, val |-> <<>>]
Some(val) == [some |-> TRUE, val |-> val]

\* the memoized fields of a FreightProxy as load_from_declaration_no_vcheck sets them
NoMemory ==
    [callables |-> None, functions |-> None, types |-> None,
     trait_definitions |-> None, modules |-> None,
     functions_by_name |-> None, types_by_name |-> None,
     types_by_native_id |-> None, trait_definitions_by_name |-> None,
     modules_by_name |-> None]

\* the registered implementor as the proxy sees it: what each flattening
\* method of the Freight f returns when the proxy calls it
flattened(f) ==
    [get_function_list |-> get_function_list(f),
     get_type_list |-> get_type_list(f),
     get_trait_definition_list |-> get_trait_definition_list(f),
     get_module_list |-> get_module_list(f)]

\* a proxy that asks the implementor for its module list whatever list it needs
implementor_modules(get_list, f) == f["get_module_list"]

\* self.freight.$get_list(): the flattening method of the registered
\* implementor f (a value of flattened)
implementor(get_list, f) == f[get_list]

Answer(ret, mem, ran) == [ret |-> ret, mem |-> mem, ran |-> ran]

\* a remember_or_create! that memoizes whatever the implementor returned, an
\* error included
remember_or_create_any(mem, memory, get_list, f) ==
    IF mem[memory].some THEN Answer(Ok(mem[memory].val), mem, <<>>)
    ELSE LET list == implementor(get_list, f) IN
         Answer(list, [mem EXCEPT ![memory] = Some(list.val)], <<get_list>>)

\* a remember_or_create! without the Some(list) case: the implementor is
\* asked every time
remember_or_create_fresh(mem, memory, get_list, f) ==
    LET list == implementor(get_list, f) IN
    IF list.kind # "Ok" THEN Answer(list, mem, <<get_list>>)
    ELSE Answer(Ok(list.val), [mem EXCEPT ![memory] = Some(list.val)], <<get_list>>)

\* remember_or_create!($self, $memory, $get_list)
remember_or_create(mem, memory, get_list, f) ==
    IF mem[memory].some THEN Answer(Ok(mem[memory].val), mem, <<>>)
    ELSE LET list == implementor(get_list, f) IN
         IF list.kind # "Ok" THEN Answer(list, mem, <<get_list>>)
         ELSE Answer(Ok(list.val), [mem EXCEPT ![memory] = Some(list.val)], <<get_list>>)

\* the case Some(list) of find_by_id!
found_by_id(name, id, list) ==
    IF Len(list) > id /\ list[id + 1].name # "" THEN Ok(list[id + 1])
    ELSE IndexError(does_not_exist(name, id))

\* find_by_id!($name, $id, $self, $memory, $get_list, $self_fn)
find_by_id(name, id, mem, memory, get_list, f) ==
    IF mem[memory].some THEN Answer(found_by_id(name, id, mem[memory].val), mem, <<>>)
    ELSE LET list == implementor(get_list, f) IN
         IF list.kind # "Ok" THEN Answer(list, mem, <<get_list>>)
         ELSE Answer(found_by_id(name, id, list.val),
                     [mem EXCEPT ![memory] = Some(list.val)], <<get_list>>)

\* the HashMap<String, Vec<usize>> built by find_by_name!: for every name of
\* the list the positions that carry it, in increasing order.  A key that
\* entry().or_default() adds with an empty Vec is not told from an absent key.
name_index(list) ==
    [n \in {list[i].name : i \in 1 .. Len(list)} |->
        LET at == SelectSeq([i \in 1 .. Len(list) |-> i], LAMBDA i : list[i].name = n) IN
        [k \in 1 .. Len(at) |-> at[k] - 1]]

\* hash_map.entry(name).or_default().clone()
ids_of(hash_map, name) == IF name \in DOMAIN hash_map THEN hash_map[name] ELSE <<>>

RECURSIVE push_by_id(_, _, _, _, _, _, _, _)
\* for id in ids { res.push($self.$get_by_id(id)?) }
push_by_id(name, ids, mem, ran, memory, get_list, f, res) ==
    IF ids = <<>> THEN Answer(Ok(res), mem, ran)
    ELSE LET one == find_by_id(name, Head(ids), mem, memory, get_list, f) IN
         IF one.ret.kind # "Ok" THEN Answer(one.ret, one.mem, ran \o one.ran)
         ELSE push_by_id(name, Tail(ids), one.mem, ran \o one.ran, memory, get_list, f,
                         Append(res, one.ret.val))

\* find_by_name!($type, $id, $self, $memory, $get_list, $get_by_id, $self_fn);
\* list_memory is the field that $get_list and $get_by_id memoize in
find_by_name(what, name, mem, memory, list_memory, get_list, f) ==
    IF mem[memory].some
    THEN push_by_id(what, ids_of(mem[memory].val, name), mem, <<>>,
                    list_memory, get_list, f, <<>>)
    ELSE LET listed == remember_or_create(mem, list_memory, get_list, f) IN
         IF listed.ret.kind # "Ok" THEN listed
         ELSE LET hash_map == name_index(listed.ret.val)
                  built == [listed.mem EXCEPT ![memory] = Some(hash_map)]
              IN push_by_id(what, ids_of(hash_map, name), built, listed.ran,
                            list_memory, get_list, f, <<>>)

\* FreightProxy::get_callable_list
proxy_get_callable_list(mem, f) ==
    IF mem.callables.some THEN Answer(Ok(mem.callables.val), mem, <<>>)
    ELSE LET tmp_functions == remember_or_create(mem, "functions", "get_function_list", f) IN
         IF tmp_functions.ret.kind # "Ok" THEN tmp_functions
         ELSE LET tmp_callables ==
                    [i \in 1 .. Len(tmp_functions.ret.val) |->
                        tmp_functions.ret.val[i].callable]
              IN Answer(Ok(tmp_callables),
                        [tmp_functions.mem EXCEPT !.callables = Some(tmp_callables)],
                        tmp_functions.ran)

\* FreightProxy::get_callable_by_id
proxy_get_callable_by_id(mem, f, id) ==
    LET function == find_by_id("Function", id, mem, "functions", "get_function_list", f) IN
    IF function.ret.kind # "Ok" THEN function
    ELSE Answer(Ok(function.ret.val.callable), function.mem, function.ran)

\* the HashMap<TypeId, usize> built by get_type_by_native_id: insert replaces,
\* so the last position with a native id stays
native_index(list) ==
    [n \in {list[i].native_id : i \in 1 .. Len(list)} |->
        CHOOSE id \in 0 .. (Len(list) - 1) :
            /\ list[id + 1].native_id = n
            /\ \A j \in 0 .. (Len(list) - 1) : list[j + 1].native_id = n => j <= id]

\* the case Some(hash_map) of FreightProxy::get_type_by_native_id
by_native_index(hash_map, native_id, mem, ran, f) ==
    IF native_id \in DOMAIN hash_map
    THEN LET one == find_by_id("Type", hash_map[native_id], mem, "types", "get_type_list", f) IN
         Answer(one.ret, one.mem, ran \o one.ran)
    ELSE Answer(IndexError("Could not find type with native id " \o native_id \o " in list"),
                mem, ran)

\* FreightProxy::get_type_by_native_id
proxy_get_type_by_native_id(mem, f, native_id) ==
    IF mem.types_by_native_id.some
    THEN by_native_index(mem.types_by_native_id.val, native_id, mem, <<>>, f)
    ELSE LET listed == remember_or_create(mem, "types", "get_type_list", f) IN
         IF listed.ret.kind # "Ok" THEN listed
         ELSE LET hash_map == native_index(listed.ret.val) IN
              by_native_index(hash_map, native_id,
                              [listed.mem EXCEPT !.types_by_native_id = Some(hash_map)],
                              listed.ran, f)

\* the queries of a FreightProxy by method name; arg is the id, the name or
\* the native id asked for, and unused by the list queries
proxy_query(method, arg, mem, f) ==
    CASE method = "get_callable_list" -> proxy_get_callable_list(mem, f)
      [] method = "get_callable_by_id" -> proxy_get_callable_by_id(mem, f, arg)
      [] method = "get_function_list" ->
            remember_or_create(mem, "functions", "get_function_list", f)
      [] method = "get_function_by_id" ->
            find_by_id("Function", arg, mem, "functions", "get_function_list", f)
      [] method = "get_functions_by_name" ->
            find_by_name("Function", arg, mem, "functions_by_name", "functions",
                         "get_function_list", f)
      [] method = "get_type_list" ->
            remember_or_create(mem, "types", "get_type_list", f)
      [] method = "get_type_by_id" ->
            find_by_id("Type", arg, mem, "types", "get_type_list", f)
      [] method = "get_type_by_native_id" -> proxy_get_type_by_native_id(mem, f, arg)
      [] method = "get_types_by_name" ->
            find_by_name("Type", arg, mem, "types_by_name", "types", "get_type_list", f)
      [] method = "get_trait_definition_list" ->
            remember_or_create(mem, "trait_definitions", "get_trait_definition_list", f)
      [] method = "get_trait_definition_by_id" ->
            find_by_id("Trait", arg, mem, "trait_definitions",
                       "get_trait_definition_list", f)
      [] method = "get_trait_definitions_by_name" ->
            find_by_name("Trait", arg, mem, "trait_definitions_by_name",
                         "trait_definitions", "get_trait_definition_list", f)
      [] method = "get_module_list" ->
            remember_or_create(mem, "modules", "get_module_list", f)
      [] method = "get_module_by_id" ->
            find_by_id("Module", arg, mem, "modules", "get_module_list", f)
      [] method = "get_modules_by_name" ->
            find_by_name("Module", arg, mem, "modules_by_name", "modules",
                         "get_module_list", f)

(***************************************************************************)
(* A host program querying one FreightProxy.  The implementor behind the   *)
(* proxy is `freight`; register_freight may replace it while the proxy     *)
(* lives, which also stands for an implementor that changes what it        *)
(* declares.  A run works on the catalogs of one kind.                     *)
(***************************************************************************)
\* a tree with placeholders in every catalog and two functions of one name
TreeA ==
    freight_of(<<0, 1>>, <<2, 0>>, 0,
        << [kind |-> "function", host |-> 1, id |-> 1, name |-> "f", slot |-> 1],
           [kind |-> "function", host |-> 1, id |-> 2, name |-> "f", slot |-> 2],
           [kind |-> "type", host |-> 2, id |-> 1, name |-> "f", slot |-> 3],
           [kind |-> "trait_definition", host |-> 1, id |-> 1, name |-> "f", slot |-> 4] >>)

\* a tree with other entities under the ids and names of TreeA
TreeB ==
    freight_of(<<0>>, <<0>>, 0,
        << [kind |-> "constant", host |-> 1, id |-> 1, name |-> "f", slot |-> 5],
           [kind |-> "function", host |-> 1, id |-> 0, name |-> "f", slot |-> 6],
           [kind |-> "type", host |-> 1, id |-> 0, name |-> "f", slot |-> 7],
           [kind |-> "trait_definition", host |-> 1, id |-> 0, name |-> "f", slot |-> 8] >>)

\* a tree whose top module has no name: ImportError from every flattening
TreeE ==
    freight_of(<<0>>, <<0>>, 1,
        << [kind |-> "function", host |-> 1, id |-> 0, name |-> "f", slot |-> 9] >>)

\* a tree whose top module has a smaller id than its submodule
TreeP ==
    freight_of(<<0, 1>>, <<0, 1>>, 0,
        << [kind |-> "function", host |-> 2, id |-> 0, name |-> "f", slot |-> 9] >>)

\* a tree with two types that declare one native type id
TreeN ==
    freight_of(<<0>>, <<0>>, 0,
        << [kind |-> "type", host |-> 1, id |-> 0, name |-> "f", slot |-> 3],
           [kind |-> "type", host |-> 1, id |-> 1, name |-> "g", slot |-> 3],
           [kind |-> "function", host |-> 1, id |-> 0, name |-> "f", slot |-> 9] >>)

ProxyFreights == {EmptyFreight, TreeA, TreeB, TreeE, TreeP, TreeN}

QueryNames == {"a::f", "a", "u8", "absent", ""}
QueryNativeIds == {"N3", "N7", "U8", "absent"}

\* the queries on the catalogs of one kind
Methods ==
    [functions |-> {"get_function_list", "get_function_by_id", "get_functions_by_name",
                    "get_callable_list", "get_callable_by_id"},
     types |-> {"get_type_list", "get_type_by_id", "get_types_by_name",
                "get_type_by_native_id"},
     trait_definitions |-> {"get_trait_definition_list", "get_trait_definition_by_id",
                            "get_trait_definitions_by_name"},
     modules |-> {"get_module_list", "get_module_by_id", "get_modules_by_name"}]

NoQuery == [method |-> "none", id |-> 0, name |-> ""]

InitProxyIdle ==
    /\ px_mem = NoMemory
    /\ px_call = NoQuery
    /\ px_ret = NoReturn
    /\ px_ran = <<>>
    /\ px_changes = 0
    /\ px_focus = "none"

InitProxy ==
    /\ px_mem = NoMemory
    /\ px_call = NoQuery
    /\ px_ret = NoReturn
    /\ px_ran = <<>>
    /\ px_changes = 0
    /\ px_focus \in DOMAIN Methods
    /\ freight \in ProxyFreights
    /\ fl_call = "none"
    /\ fl_ret = NoReturn

\* a query on the proxy returns
proxy_returns(method, id, name, answer) ==
    /\ method \in Methods[px_focus]
    /\ px_call' = [method |-> method, id |-> id, name |-> name]
    /\ px_ret' = answer.ret
    /\ px_mem' = answer.mem
    /\ px_ran' = answer.ran
    /\ UNCHANGED <<freight, fl_call, fl_ret, px_changes, px_focus>>

ProxyList(method) ==
    /\ method \in {"get_function_list", "get_type_list", "get_trait_definition_list",
                   "get_module_list", "get_callable_list"}
    /\ proxy_returns(method, 0, "", proxy_query(method, 0, px_mem, flattened(freight)))
    /\ ProxyOnly

ProxyById(method, id) ==
    /\ method \in {"get_function_by_id", "get_type_by_id", "get_trait_definition_by_id",
                   "get_module_by_id", "get_callable_by_id"}
    /\ proxy_returns(method, id, "", proxy_query(method, id, px_mem, flattened(freight)))
    /\ ProxyOnly

ProxyByName(method, name) ==
    /\ method \in {"get_functions_by_name", "get_types_by_name",
                   "get_trait_definitions_by_name", "get_modules_by_name"}
    /\ proxy_returns(method, 0, name, proxy_query(method, name, px_mem, flattened(freight)))
    /\ ProxyOnly

ProxyByNativeId(native_id) ==
    /\ proxy_returns("get_type_by_native_id", 0, native_id,
                     proxy_query("get_type_by_native_id", native_id, px_mem, flattened(freight)))
    /\ ProxyOnly

\* FreightRegistrar::register_freight on the living proxy: another
\* implementor, or the same one declaring another tree
RegisterFreight(f) ==
    /\ px_changes < MaxChanges
    /\ f # freight
    /\ freight' = f
    /\ px_changes' = px_changes + 1
    /\ UNCHANGED <<fl_call, fl_ret, px_mem, px_call, px_ret, px_ran, px_focus>>
    /\ ProxyOnly

\* the lookups that the Freight trait provides, by method name; arg is the
\* id, the name or the native id asked for
freight_query(method, arg, f) ==
    CASE method = "get_callable_list" -> get_callable_list(f)
      [] method = "get_callable_by_id" -> get_callable_by_id(f, arg)
      [] method = "get_function_by_id" -> get_function_by_id(f, arg)
      [] method = "get_functions_by_name" -> get_functions_by_name(f, arg)
      [] method = "get_type_by_id" -> get_type_by_id(f, arg)
      [] method = "get_types_by_name" -> get_types_by_name(f, arg)
      [] method = "get_type_by_native_id" -> get_type_by_native_id(f, arg)
      [] method = "get_trait_definition_by_id" -> get_trait_definition_by_id(f, arg)
      [] method = "get_trait_definitions_by_name" -> get_trait_definitions_by_name(f, arg)
      [] method = "get_module_by_id" -> get_module_by_id(f, arg)
      [] method = "get_modules_by_name" -> get_modules_by_name(f, arg)

\* the flattening a lookup of the Freight trait starts with
flattening_of(method) ==
    CASE method \in {"get_callable_list", "get_callable_by_id", "get_function_by_id",
                     "get_functions_by_name"} -> "get_function_list"
      [] method \in {"get_type_by_id", "get_types_by_name", "get_type_by_native_id"} ->
            "get_type_list"
      [] method \in {"get_trait_definition_by_id", "get_trait_definitions_by_name"} ->
            "get_trait_definition_list"
      [] method \in {"get_module_by_id", "get_modules_by_name"} -> "get_module_list"

\* a lookup called on the implementor itself, which keeps the methods the
\* Freight trait provides, returns; nothing is memoized
freight_returns(method, id, name, ret) ==
    /\ method \in Methods[px_focus]
    /\ px_call' = [method |-> "Freight::" \o method, id |-> id, name |-> name]
    /\ px_ret' = ret
    /\ px_ran' = <<flattening_of(method)>>
    /\ UNCHANGED <<freight, fl_call, fl_ret, px_changes, px_focus, px_mem>>

FreightCallableList ==
    /\ freight_returns("get_callable_list", 0, "",
                       freight_query("get_callable_list", 0, freight))
    /\ ProxyOnly

FreightById(method, id) ==
    /\ method \in {"get_function_by_id", "get_type_by_id", "get_trait_definition_by_id",
                   "get_module_by_id", "get_callable_by_id"}
    /\ freight_returns(method, id, "", freight_query(method, id, freight))
    /\ ProxyOnly

FreightByName(method, name) ==
    /\ method \in {"get_functions_by_name", "get_types_by_name",
                   "get_trait_definitions_by_name", "get_modules_by_name"}
    /\ freight_returns(method, 0, name, freight_query(method, name, freight))
    /\ ProxyOnly

FreightByNativeId(native_id) ==
    /\ freight_returns("get_type_by_native_id", 0, native_id,
                       freight_query("get_type_by_native_id", native_id, freight))
    /\ ProxyOnly

NextProxy ==
    \/ \E method \in UNION {Methods[k] : k \in DOMAIN Methods} :
        \/ ProxyList(method)
        \/ \E id \in Ids : ProxyById(method, id)
        \/ \E name \in QueryNames : ProxyByName(method, name)
    \/ \E native_id \in QueryNativeIds : ProxyByNativeId(native_id)
    \/ \E f \in ProxyFreights : RegisterFreight(f)

\* a host that queries the proxy and, beside it, the implementor
NextLookup ==
    \/ NextProxy
    \/ FreightCallableList
    \/ \E method \in UNION {Methods[k] : k \in DOMAIN Methods} :
          \/ \E id \in Ids : FreightById(method, id)
          \/ \E name \in QueryNames : FreightByName(method, name)
    \/ \E native_id \in QueryNativeIds : FreightByNativeId(native_id)

(***************************************************************************)
(* Objects: handles (Object) to containers (Box<dyn DkAny>) on the heap,   *)
(* and the payload U8                                                      *)
(***************************************************************************)
\* a container for every handle at most
Containers == 1 .. MaxObHandles
ObHandles == 1 .. MaxObHandles

\* the payload types: U8, and "Other" for every other implementor of DkAny
PayloadTypes == {"U8", "Other"}

\* a Box<dyn DkAny> given as an argument
Boxes == [type : PayloadTypes, data : Bytes]

\* the byte vectors handed to dk_load, the dump of a U8 among them, and the
\* cursors they are read from: at the byte and past the end
ByteVectors == {<<>>} \cup {<<byte>> : byte \in Bytes}
Cursors == {0, Len(<<0>>)}

TypeError(msg) == [kind |-> "TypeError", val |-> <<>>, msg |-> msg]

\* (mutant) the Any value is the payload inside the Box
as_any_payload(new_data) == new_data.type

\* U8::dk_set, "&*new_data as &dyn Any" with new_data : &Box<dyn DkAny>: the
\* unsized coercion makes the Box itself the Any value, whatever it holds
as_any(new_data) == "Box<dyn DkAny>"

\* <u8 as ToDk>::to_dk: a new U8 with a control block of its own
to_dk(byte) == Ok([type |-> "U8", data |-> byte])

\* U8::dk_get
U8_dk_get(self_data) == to_dk(self_data)

\* U8::dk_set: the result and U8.data after the call
U8_dk_set(self_data, new_data) ==
    IF as_any(new_data) = "U8"
    THEN [res |-> Ok(<<>>), data |-> new_data.data]
    ELSE [res |-> TypeError("Expected an object of type U8"), data |-> self_data]

\* U8::dk_dump
U8_dk_dump(self_data) == Ok(<<self_data>>)

\* (mutant) dk_load leaves the cursor where it was
U8_dk_load_cursor_kept(self_data, new_data, cursor) ==
    IF cursor >= Len(new_data)
    THEN [res |-> Panic, data |-> self_data, cursor |-> cursor]
    ELSE [res |-> Ok(<<>>), data |-> new_data[cursor + 1], cursor |-> cursor]

\* U8::dk_load: the result, U8.data and the cursor after the call; the index
\* outside the vector panics before anything is written
U8_dk_load(self_data, new_data, cursor) ==
    IF cursor >= Len(new_data)
    THEN [res |-> Panic, data |-> self_data, cursor |-> cursor]
    ELSE [res |-> Ok(<<>>), data |-> new_data[cursor + 1], cursor |-> cursor + 1]

\* a slot of the heap that holds no container
NoContainer == [live |-> FALSE, data |-> 0, rc |-> 0, lck |-> 0]

\* the allocator: the first slot that holds no container (0: the heap is full)
allocate(heap) ==
    IF \A c \in Containers : heap[c].live THEN 0
    ELSE CHOOSE c \in Containers :
            /\ ~heap[c].live
            /\ \A d \in Containers : d < c => heap[d].live

\* Object::new over a new U8: ObjCore::new gives the count 1 and the word 0
Object_new(heap, byte) ==
    [heap EXCEPT ![allocate(heap)] = [live |-> TRUE, data |-> byte, rc |-> 1, lck |-> 0]]

\* (mutant) clone makes a container of its own with a copy of the payload
Object_clone_deep(heap, c) ==
    [heap |-> Object_new(heap, heap[c].data), data |-> allocate(heap), err |-> "none"]

\* Object::clone of a handle to the container c: dk_incref on the container,
\* then a handle with the same pointer
Object_clone(heap, c) ==
    [heap |-> [heap EXCEPT ![c].rc = incref(@).rc],
     data |-> c,
     err |-> incref(heap[c].rc).err]

\* Object::drop of a handle to the container c
Object_drop(heap, c) ==
    IF drop_is_last(decref(heap[c].rc).old)
    THEN [heap EXCEPT ![c] = NoContainer]
    ELSE [heap EXCEPT ![c].rc = decref(@).rc]

\* Object::get_underlying_data and <Object as DkGet>::dk_get on the container c
get_underlying_data(heap, c) == U8_dk_get(heap[c].data)

NoObjCall ==
    [op |-> "none", h |-> 0, arg |-> <<>>, cursor |-> 0, res |-> Ok(<<>>), after |-> 0]

InitObjectsIdle ==
    /\ ob_heap = [c \in Containers |-> NoContainer]
    /\ ob_ptr = [h \in ObHandles |-> 0]
    /\ ob_from = [h \in ObHandles |-> 0]
    /\ ob_last = NoObjCall

ObjReturn(op, h, arg, cursor, res, after) ==
    ob_last' = [op |-> op, h |-> h, arg |-> arg, cursor |-> cursor, res |-> res,
                after |-> after]

\* <u8 as ToDk>::to_dk_object: a new container and the first handle to it
ObjNew(h, byte) ==
    /\ ob_ptr[h] = 0
    /\ allocate(ob_heap) # 0
    /\ ob_heap' = Object_new(ob_heap, byte)
    /\ ob_ptr' = [ob_ptr EXCEPT ![h] = allocate(ob_heap)]
    /\ ob_from' = [ob_from EXCEPT ![h] = allocate(ob_heap)]
    /\ ObjReturn("new", h, byte, 0, Ok(<<>>), 0)
    /\ ObjectOnly

\* Object::clone of the handle src into the handle new; the OverflowError of
\* dk_incref is unwrapped, the clone panics and yields no handle
ObjClone(src, new) ==
    /\ ob_ptr[src] # 0
    /\ ob_ptr[new] = 0
    /\ LET r == Object_clone(ob_heap, ob_ptr[src]) IN
       /\ ob_heap' = r.heap
       /\ ob_ptr' = [ob_ptr EXCEPT ![new] = IF r.err = "none" THEN r.data ELSE 0]
       /\ ob_from' = [ob_from EXCEPT ![new] = IF r.err = "none" THEN ob_from[src] ELSE 0]
       /\ ObjReturn("clone", new, src, 0, IF r.err = "none" THEN Ok(<<>>) ELSE Panic, 0)
    /\ ObjectOnly

\* Object::drop of the handle h
ObjDrop(h) ==
    /\ ob_ptr[h] # 0
    /\ ob_heap' = Object_drop(ob_heap, ob_ptr[h])
    /\ ob_ptr' = [ob_ptr EXCEPT ![h] = 0]
    /\ ob_from' = [ob_from EXCEPT ![h] = 0]
    /\ ObjReturn("drop", h, <<>>, 0, Ok(<<>>), 0)
    /\ ObjectOnly

\* Object::get_underlying_data through the handle h
ObjGet(h) ==
    /\ ob_ptr[h] # 0
    /\ ObjReturn("get", h, <<>>, 0, get_underlying_data(ob_heap, ob_ptr[h]), 0)
    /\ UNCHANGED <<ob_heap, ob_ptr, ob_from>>
    /\ ObjectOnly

\* Object::set_underlying_data through the handle h
ObjSet(h, new_data) ==
    /\ ob_ptr[h] # 0
    /\ LET r == U8_dk_set(ob_heap[ob_ptr[h]].data, new_data) IN
       /\ ob_heap' = [ob_heap EXCEPT ![ob_ptr[h]].data = r.data]
       /\ ObjReturn("set", h, new_data, 0, r.res, 0)
    /\ UNCHANGED <<ob_ptr, ob_from>>
    /\ ObjectOnly

\* <Object as DkDump>::dk_dump through the handle h
ObjDump(h) ==
    /\ ob_ptr[h] # 0
    /\ ObjReturn("dk_dump", h, <<>>, 0, U8_dk_dump(ob_heap[ob_ptr[h]].data), 0)
    /\ UNCHANGED <<ob_heap, ob_ptr, ob_from>>
    /\ ObjectOnly

\* <Object as DkLoad>::dk_load through the handle h
ObjLoad(h, new_data, cursor) ==
    /\ ob_ptr[h] # 0
    /\ LET r == U8_dk_load(ob_heap[ob_ptr[h]].data, new_data, cursor) IN
       /\ ob_heap' = [ob_heap EXCEPT ![ob_ptr[h]].data = r.data]
       /\ ObjReturn("dk_load", h, new_data, cursor, r.res, r.cursor)
    /\ UNCHANGED <<ob_ptr, ob_from>>
    /\ ObjectOnly

NextObjects ==
    \/ \E h \in ObHandles, byte \in Bytes : ObjNew(h, byte)
    \/ \E src \in ObHandles, new \in ObHandles : ObjClone(src, new)
    \/ \E h \in ObHandles : ObjDrop(h)
    \/ \E h \in ObHandles : ObjGet(h)
    \/ \E h \in ObHandles, new_data \in Boxes : ObjSet(h, new_data)
    \/ \E h \in ObHandles : ObjDump(h)
    \/ \E h \in ObHandles, new_data \in ByteVectors, cursor \in Cursors :
           ObjLoad(h, new_data, cursor)

(***************************************************************************)
(* Version: the ordering                                                   *)
(***************************************************************************)
VersionNumbers == 0 .. MaxVersionNumber
Versions ==
    [major : VersionNumbers, minor : VersionNumbers,
     release : VersionNumbers, build : VersionNumbers]

\* (mutant) cmp looks at minor before major
Version_cmp_minor_first(self, other) ==
    IF self.minor > other.minor THEN "Greater"
    ELSE IF self.minor < other.minor THEN "Less"
    ELSE IF self.major > other.major THEN "Greater"
    ELSE IF self.major < other.major THEN "Less"
    ELSE IF self.release > other.release THEN "Greater"
    ELSE IF self.release < other.release THEN "Less"
    ELSE IF self.build > other.build THEN "Greater"
    ELSE IF self.build < other.build THEN "Less"
    ELSE "Equal"

\* <Version as Ord>::cmp
Version_cmp(self, other) ==
    IF self.major > other.major THEN "Greater"
    ELSE IF self.major < other.major THEN "Less"
    ELSE IF self.minor > other.minor THEN "Greater"
    ELSE IF self.minor < other.minor THEN "Less"
    ELSE IF self.release > other.release THEN "Greater"
    ELSE IF self.release < other.release THEN "Less"
    ELSE IF self.build > other.build THEN "Greater"
    ELSE IF self.build < other.build THEN "Less"
    ELSE "Equal"

\* <Version as PartialOrd>::partial_cmp
Version_partial_cmp(self, other) == Some(Version_cmp(self, other))

\* (mutant) eq looks at the major number only
Version_eq_major(self, other) == self.major = other.major

\* <Version as PartialEq>::eq, the operator ==
Version_eq(self, other) == Version_cmp(self, other) = "Equal"

\* PartialOrd::lt and PartialOrd::gt, the operators < and >, as the standard
\* library derives them from partial_cmp
Version_lt(self, other) == Version_partial_cmp(self, other) = Some("Less")
Version_gt(self, other) == Version_partial_cmp(self, other) = Some("Greater")

NoComparison == [op |-> "none", res |-> "none"]

InitVersionIdle ==
    /\ ver_a = [major |-> 0, minor |-> 0, release |-> 0, build |-> 0]
    /\ ver_b = ver_a
    /\ ver_out = NoComparison

InitVersion ==
    /\ ver_a \in Versions
    /\ ver_b \in Versions
    /\ ver_out = NoComparison

Compared(op, res) ==
    /\ ver_out' = [op |-> op, res |-> res]
    /\ UNCHANGED <<ver_a, ver_b>>

VersionCmp == Compared("cmp", Version_cmp(ver_a, ver_b)) /\ VersionOnly
VersionPartialCmp == Compared("partial_cmp", Version_partial_cmp(ver_a, ver_b)) /\ VersionOnly
VersionEq == Compared("eq", Version_eq(ver_a, ver_b)) /\ VersionOnly
VersionLt == Compared("lt", Version_lt(ver_a, ver_b)) /\ VersionOnly
VersionGt == Compared("gt", Version_gt(ver_a, ver_b)) /\ VersionOnly

NextVersion ==
    \/ VersionCmp
    \/ VersionPartialCmp
    \/ VersionEq
    \/ VersionLt
    \/ VersionGt

(***************************************************************************)
(* ObjCore: the counters at the cap                                        *)
(***************************************************************************)
NoCounterCall == [op |-> "none", pre |-> 0, res |-> "none"]

\* ObjCore::new
InitCountersIdle ==
    /\ ct_rc = 1
    /\ ct_lck = 0
    /\ ct_out = NoCounterCall

\* dk_incref called on the control block: the old count, or OverflowError
CounterIncref ==
    /\ ct_rc' = incref(ct_rc).rc
    /\ ct_out' = [op |-> "dk_incref", pre |-> ct_rc,
                  res |-> IF incref(ct_rc).err = "none" THEN "Ok" ELSE incref(ct_rc).err]
    /\ UNCHANGED ct_lck
    /\ CountersOnly

\* dk_decref called on the control block: the old count
CounterDecref ==
    /\ ct_rc' = decref(ct_rc).rc
    /\ ct_out' = [op |-> "dk_decref", pre |-> ct_rc, res |-> "Ok"]
    /\ UNCHANGED ct_lck
    /\ CountersOnly

\* dk_try_lock_ex called on the control block by a thread running alone
CounterTryLockEx ==
    /\ ct_lck' = dk_try_lock_ex_seq(ct_lck).lck
    /\ ct_out' = [op |-> "dk_try_lock_ex", pre |-> ct_lck,
                  res |-> dk_try_lock_ex_seq(ct_lck).res]
    /\ UNCHANGED ct_rc
    /\ CountersOnly

\* dk_try_lock called on the control block by a thread running alone
CounterTryLock ==
    /\ ct_lck' = dk_try_lock_seq(ct_lck).lck
    /\ ct_out' = [op |-> "dk_try_lock", pre |-> ct_lck, res |-> dk_try_lock_seq(ct_lck).res]
    /\ UNCHANGED ct_rc
    /\ CountersOnly

\* dk_unlock called on the control block, releasing a hold
CounterUnlock ==
    /\ ct_lck # 0
    /\ ct_lck' = dk_unlock_seq(ct_lck).lck
    /\ ct_out' = [op |-> "dk_unlock", pre |-> ct_lck, res |-> dk_unlock_seq(ct_lck).res]
    /\ UNCHANGED ct_rc
    /\ CountersOnly

NextCounters ==
    \/ CounterIncref
    \/ CounterDecref
    \/ CounterTryLock
    \/ CounterTryLockEx
    \/ CounterUnlock

(***************************************************************************)
(* The destruction of a FreightProxy.  The struct has no Drop of its own,  *)
(* so its fields are dropped one after the other in the order of their     *)
(* declaration.  The field lib holds the only Rc of the Library that load  *)
(* opened: dropping it closes the library.  The implementor and the        *)
(* memoized catalogs hold values the plugin made, callables among them,    *)
(* whose destructors are code of the library.                              *)
(***************************************************************************)
\* the fields of FreightProxy in the order of their declaration
FreightProxyFields ==
    <<"freight", "lib", "name", "version", "backwards_compat_version", "callables",
      "functions", "types", "trait_definitions", "modules", "functions_by_name",
      "types_by_name", "types_by_native_id", "trait_definitions_by_name",
      "modules_by_name">>

\* the fields that hold what the plugin made: the registered implementor and
\* the memoized callables, functions, types, trait definitions and modules
PluginFields ==
    {"freight", "callables", "functions", "types", "trait_definitions", "modules"}

\* the field holds a value of the plugin: the implementor always, a catalog
\* once it is memoized
holds_plugin_value(field, mem) ==
    \/ field = "freight"
    \/ field \in PluginFields \ {"freight"} /\ mem[field].some

\* the memoized fields whose values hold callables of the plugin (a Function
\* holds its callable, a Type its methods, a Module its functions); a
\* TraitDefinition holds names only
CallableFields == {"callables", "functions", "types", "modules"}

\* Rc<Library>: dropping the field lib, the last handle, closes the library
drop_field_lib(field, mapped) == IF field = "lib" THEN FALSE ELSE mapped

InitDropIdle ==
    /\ dp_next = 0
    /\ dp_mapped = FALSE
    /\ dp_late = {}
    /\ dp_fault = FALSE

\* the proxy as FreightProxy::load returned it: its library is mapped
InitDrop ==
    /\ dp_next = 0
    /\ dp_mapped = TRUE
    /\ dp_late = {}
    /\ dp_fault = FALSE

\* a catalog list is queried on the proxy while it is alive
QueryAlive(method) ==
    /\ dp_next = 0
    /\ ProxyList(method)

\* the proxy goes out of scope and its next field is dropped.  Destroying a
\* callable of the plugin when the library is gone runs code that is no
\* longer mapped: the process may go on or go down.
DropField ==
    /\ dp_next < Len(FreightProxyFields)
    /\ ~dp_fault
    /\ LET field == FreightProxyFields[dp_next + 1]
           late == holds_plugin_value(field, px_mem) /\ ~dp_mapped
       IN
       /\ dp_next' = dp_next + 1
       /\ dp_mapped' = drop_field_lib(field, dp_mapped)
       /\ dp_late' = IF late THEN dp_late \cup {field} ELSE dp_late
       /\ dp_fault' \in IF late /\ field \in CallableFields THEN BOOLEAN ELSE {FALSE}
    /\ UNCHANGED <<flatVars, proxyVars>>
    /\ DropOnly

NextDrop ==
    \/ \E method \in UNION {Methods[k] : k \in DOMAIN Methods} : QueryAlive(method)
    \/ DropField

(***************************************************************************)
(* The specifications                                                      *)
(***************************************************************************)
InitRest ==
    /\ InitLock
    /\ InitRcIdle /\ n_clones = 0
    /\ InitLoad
    /\ InitAccess
    /\ InitObjectsIdle
    /\ InitVersionIdle
    /\ InitCountersIdle
    /\ InitDropIdle
    /\ freight = EmptyFreight /\ InitFlatIdle
    /\ InitProxyIdle

InitSpecAccess == InitRest

SpecAccess == InitSpecAccess /\ [][NextAccess]_vars

\* threads that reach the payload through guards only
NextGuard ==
    \E t \in Threads :
        \/ GuardDeref(t)
        \/ \E v \in Bytes : GuardDerefMut(t, v)
        \/ AccessEnd(t)
        \/ GetRefLoad(t)
        \/ GetRefCas(t)
        \/ GetMut(t)
        \/ GuardDropLoad(t)
        \/ GuardDropCas(t)

InitSpecGuard == InitRest

SpecGuard == InitSpecGuard /\ [][NextGuard]_vars

InitSpecLock == InitRest

SpecLock == InitSpecLock /\ [][NextLock]_vars

\* thread t holds nothing
HoldsNothing(t) == held[t] = [sh |-> 0, ex |-> 0]

\* dk_lock called by a thread that holds nothing, or its next round
FairLock(t) ==
    /\ lk_pc[t] = "idle" => HoldsNothing(t)
    /\ try_lock_load(t, "lock")
    /\ LockOnly

\* dk_lock_ex called by a thread that holds nothing, or its next round
FairLockEx(t) ==
    /\ lk_pc[t] = "idle" => HoldsNothing(t)
    /\ lock_ex(t)
    /\ LockOnly

\* the blocking acquires and the release, each thread taking one hold at a
\* time
NextLockFair ==
    \E t \in Threads :
        \/ FairLock(t)
        \/ TryLockCas(t)
        \/ FairLockEx(t)
        \/ UnlockLoad(t)
        \/ UnlockCas(t)

\* the next step of thread t inside the call it is in: the scheduler lets a
\* thread that is inside a call, asleep in the loop of dk_lock or dk_lock_ex
\* or between a load and its exchange, run again
Continue(t) ==
    /\ lk_pc[t] # "idle"
    /\ \/ FairLock(t)
       \/ TryLockCas(t)
       \/ FairLockEx(t)
       \/ UnlockLoad(t)
       \/ UnlockCas(t)

\* the blocking acquires under fair scheduling of the threads that are
\* inside a call
InitSpecLockFair == InitRest

SpecLockFair ==
    /\ InitSpecLockFair
    /\ [][NextLockFair]_vars
    /\ \A t \in Threads : WF_vars(Continue(t))

InitSpecRc ==
    /\ InitLock
    /\ InitRc
    /\ InitLoad
    /\ InitAccess
    /\ InitObjectsIdle
    /\ InitVersionIdle
    /\ InitCountersIdle
    /\ InitDropIdle
    /\ freight = EmptyFreight /\ InitFlatIdle
    /\ InitProxyIdle

SpecRc == InitSpecRc /\ [][NextRc]_vars

InitSpecLoad == InitRest

SpecLoad == InitSpecLoad /\ [][NextLoad]_vars

InitSpecFlat ==
    /\ InitLock
    /\ InitRcIdle /\ n_clones = 0
    /\ InitLoad
    /\ InitAccess
    /\ InitObjectsIdle
    /\ InitVersionIdle
    /\ InitCountersIdle
    /\ InitDropIdle
    /\ InitFlat
    /\ InitProxyIdle

SpecFlat == InitSpecFlat /\ [][NextFlat]_vars

InitSpecProxy ==
    /\ InitLock
    /\ InitRcIdle /\ n_clones = 0
    /\ InitLoad
    /\ InitAccess
    /\ InitObjectsIdle
    /\ InitVersionIdle
    /\ InitCountersIdle
    /\ InitDropIdle
    /\ InitProxy

SpecProxy == InitSpecProxy /\ [][NextProxy]_vars

InitSpecLookup == InitSpecProxy
SpecLookup == InitSpecLookup /\ [][NextLookup]_vars

\* Handles of one container in several threads: thread t works through the
\* handle t - 1 once that handle exists, taking and dropping guards on it,
\* while handles are cloned and dropped.  A guard borrows its handle
\* (ObjGuard holds &Object, ObjGuardMut &mut Object), and so does a call
\* that is running on it: a borrowed handle cannot be dropped, and a handle
\* borrowed mutably cannot be cloned.
HandleOf(t) == t - 1

\* the handle is borrowed by its thread: a guard on it is alive or a call
\* on it is running
Borrowed(h) ==
    \E t \in Threads :
        /\ HandleOf(t) = h
        /\ guard[t] # NoGuard \/ lk_pc[t] # "idle"

\* the handle is borrowed mutably: an ObjGuardMut on it is alive or get_mut
\* is running on it
MutBorrowed(h) ==
    \E t \in Threads :
        /\ HandleOf(t) = h
        /\ guard[t].ex > 0 \/ lk_op[t] = "lock_ex"

\* get_ref, get_mut and the drop of a guard on the live handle of thread t
SharedGetRef(t) ==
    /\ hs[HandleOf(t)] = "live"
    /\ GetRefLoad(t) \/ GetRefCas(t)

SharedGetMut(t) ==
    /\ hs[HandleOf(t)] = "live"
    /\ GetMut(t)

SharedGuardDrop(t) ==
    /\ hs[HandleOf(t)] = "live"
    /\ GuardDropLoad(t) \/ GuardDropCas(t)

\* Object::clone of a handle that is not borrowed mutably
SharedClone(src, new) ==
    /\ ~MutBorrowed(src)
    /\ Clone(src, new)

\* the drop of a handle that is not borrowed
SharedDrop(h) ==
    /\ ~Borrowed(h)
    /\ DropDecref(h)

NextShared ==
    \/ \E t \in Threads :
        \/ SharedGetRef(t)
        \/ SharedGetMut(t)
        \/ SharedGuardDrop(t)
    \/ \E src \in Handles, new \in Handles : SharedClone(src, new)
    \/ \E h \in Handles :
        \/ SharedDrop(h)
        \/ DropFinish(h)

InitSpecShared ==
    /\ InitLock
    /\ InitRcIdle /\ n_clones = MaxClones
    /\ InitLoad
    /\ InitAccess
    /\ InitObjectsIdle
    /\ InitVersionIdle
    /\ InitCountersIdle
    /\ InitDropIdle
    /\ freight = EmptyFreight /\ InitFlatIdle
    /\ InitProxyIdle

SpecShared == InitSpecShared /\ [][NextShared]_vars

\* a proxy that load returned, queried and then dropped
InitSpecDrop ==
    /\ InitLock
    /\ InitRcIdle /\ n_clones = 0
    /\ InitLoad
    /\ InitAccess
    /\ InitObjectsIdle
    /\ InitVersionIdle
    /\ InitCountersIdle
    /\ InitDrop
    /\ InitProxy

SpecDrop == InitSpecDrop /\ [][NextDrop]_vars

InitSpecObjects ==
    /\ InitLock
    /\ InitRcIdle /\ n_clones = 0
    /\ InitLoad
    /\ InitAccess
    /\ freight = EmptyFreight /\ InitFlatIdle
    /\ InitProxyIdle
    /\ InitObjectsIdle
    /\ InitVersionIdle
    /\ InitCountersIdle
    /\ InitDropIdle

\* handles and containers of payload U8, called by one thread
SpecObjects == InitSpecObjects /\ [][NextObjects]_vars

InitSpecVersion ==
    /\ InitLock
    /\ InitRcIdle /\ n_clones = 0
    /\ InitLoad
    /\ InitAccess
    /\ freight = EmptyFreight /\ InitFlatIdle
    /\ InitProxyIdle
    /\ InitObjectsIdle
    /\ InitVersion
    /\ InitCountersIdle
    /\ InitDropIdle

\* the comparisons of every pair of Versions
SpecVersion == InitSpecVersion /\ [][NextVersion]_vars

InitSpecCounters == InitRest

\* one control block, its two counters raised call by call from ObjCore::new
SpecCounters == InitSpecCounters /\ [][NextCounters]_vars

(***************************************************************************)
(* Claims about the lock word                                              *)
(***************************************************************************)
ExHolders == {t \in Threads : held[t].ex > 0}
ShHolders == {t \in Threads : held[t].sh > 0}

LiveHandles == {h \in Handles : hs[h] = "live"}

\* C2: for N clones of one Object made by concurrently running threads and
\* N+1 drops in any interleaving, the container is freed exactly once, by the
\* drop that saw a count of 1 before its decrement, and never while a handle
\* (the original or a clone) is still live.
C2_FreedOnceByLastOwner ==
    /\ freed <= 1
    /\ freed = 1 => LiveHandles = {}
    /\ \A h \in Handles : (hs[h] = "dropping" /\ drop_is_last(h_old[h])) => LiveHandles = {}
    /\ Cardinality({h \in Handles : hs[h] # "none" /\ h_old[h] = 1}) <= 1
    /\ freed = Cardinality({h \in Handles : hs[h] = "gone" /\ h_old[h] = 1})
    /\ (\A h \in Handles : hs[h] \in {"none", "gone"}) => freed = 1

\* all of MaxClones clones were made and every handle was dropped
C2_Witness ==
    /\ n_clones = MaxClones
    /\ \A h \in Handles : hs[h] = "gone"
    /\ freed = 1
    /\ rc = 0

(***************************************************************************)
(* Claims about the loader                                                 *)
(***************************************************************************)
VersionsMatch(declaration) ==
    /\ declaration.rustc_version = RUSTC_VERSION
    /\ declaration.api_version = API_VERSION

\* C3: when the declaration's compiler-version or API-version string differs
\* from the host's, load and load_from_declaration return ImportError and
\* the registration entry point is never invoked: whenever one of them has
\* invoked it, both version strings were compared and found equal.
C3_NoRegistrationOnMismatch ==
    ld_entry \in {"load", "load_from_declaration"} =>
        /\ reg_calls > 0 => VersionsMatch(ld_in.decl)
        /\ ld_pc = "construct" => VersionsMatch(ld_in.decl)
        /\ (ld_pc = "done" /\ ~VersionsMatch(ld_in.decl)
              /\ (ld_entry = "load" => (ld_in.path_ok /\ ld_in.symbol_ok))) =>
                (ld_ret = "ImportError" /\ reg_calls = 0 /\ ~proxy.exists)

\* load read a declaration whose API version alone differs and returned ImportError
C3_Witness ==
    /\ ld_entry = "load"
    /\ ld_pc = "done"
    /\ ld_in.path_ok /\ ld_in.symbol_ok
    /\ ld_in.decl.rustc_version = RUSTC_VERSION
    /\ ld_in.decl.api_version # API_VERSION
    /\ ld_in.decl.registers = 1
    /\ ld_ret = "ImportError"
    /\ reg_calls = 0

(***************************************************************************)
(* Claims about payload access                                             *)
(***************************************************************************)
\* C4: for two handles to one container used by two threads through
\* Object's public API, every read of the payload happens while the reading
\* thread holds a shared or exclusive lock and every write while the writing
\* thread holds the exclusive lock, so no write is concurrent with another
\* read or write.
C4_AccessUnderLock ==
    /\ \A t \in Threads :
          /\ acc[t] = "read" => held[t].sh + held[t].ex > 0
          /\ acc[t] = "write" => held[t].ex > 0
    /\ \A t1, t2 \in Threads :
          (t1 # t2 /\ acc[t1] = "write") => acc[t2] = "none"

\* the acquire errors of ObjCore::try_lock
LockErrors == {"OverflowError", "RuntimeError"}

\* a step in which the dk_lock of get_ref or the dk_lock_ex of get_mut returns an error
AcquireFails ==
    /\ lk_last'.op \in {"lock", "lock_ex"}
    /\ lk_last'.res \in LockErrors
    /\ \/ lk_last' # lk_last
       \/ lk_pc[lk_last'.t] # "idle" /\ lk_pc'[lk_last'.t] = "idle"

C11_AllDropped ==
    /\ lk_last.op = "unlock" /\ lk_last.res = "Ok" /\ lk_last.post = 0
    /\ \A t \in Threads : guard[t] = NoGuard

(***************************************************************************)
(* Claims about catalog flattening                                         *)
(***************************************************************************)
RECURSIVE declared_modules(_)
\* every module of a forest, submodules included
declared_modules(mods) ==
    IF mods = <<>> THEN <<>>
    ELSE <<Head(mods)>> \o declared_modules(Head(mods).submodules)
                        \o declared_modules(Tail(mods))

\* every type declared in the tree
declared_types(f) ==
    LET mods == declared_modules(f.top_modules) IN
    Flatten([m \in 1 .. Len(mods) |-> mods[m].types])

\* every trait definition declared in the tree
declared_traits(f) ==
    LET mods == declared_modules(f.top_modules) IN
    Flatten([m \in 1 .. Len(mods) |-> mods[m].trait_definitions])

\* every callable declared in the tree: operators, module functions and
\* constants, type methods, field accessors and trait-implementation methods
declared_functions(f) ==
    LET mods == declared_modules(f.top_modules)
        types == declared_types(f)
        of_type(t) ==
            t.methods \o t.fields
            \o Flatten([j \in 1 .. Len(t.trait_implementations) |->
                    [i \in 1 .. Len(t.trait_implementations[j].methods) |->
                        t.trait_implementations[j].methods[i].function]])
    IN
    f.operators
    \o Flatten([m \in 1 .. Len(mods) |-> mods[m].functions \o mods[m].constants])
    \o Flatten([t \in 1 .. Len(types) |-> of_type(types[t])])

\* the id an entity of the catalog kind of a call carries
IdOf(call, e) ==
    CASE call = "get_module_list" -> e.md_id
      [] call = "get_function_list" -> e.fn_id
      [] call = "get_type_list" -> e.tp_id
      [] call = "get_trait_definition_list" -> e.td_id

\* the entities of the catalog kind of a call, as declared
Declared(call, f) ==
    CASE call = "get_module_list" -> declared_modules(f.top_modules)
      [] call = "get_function_list" -> declared_functions(f)
      [] call = "get_type_list" -> declared_types(f)
      [] call = "get_trait_definition_list" -> declared_traits(f)
      [] OTHER -> <<>>

DeclaredIds(call, f) ==
    { IdOf(call, Declared(call, f)[i]) : i \in 1 .. Len(Declared(call, f)) }

\* no module, type, trait definition or callable of the tree has an empty name
AllNamed(f) ==
    \A call \in {"get_module_list", "get_function_list", "get_type_list",
                 "get_trait_definition_list"} :
        \A i \in 1 .. Len(Declared(call, f)) : Declared(call, f)[i].name # ""

\* two entities of the catalog kind of the call declare one id
DuplicateId(call, f) ==
    \E i, j \in 1 .. Len(Declared(call, f)) :
        /\ i < j
        /\ IdOf(call, Declared(call, f)[i]) = IdOf(call, Declared(call, f)[j])
        /\ Declared(call, f)[i].name # ""
        /\ Declared(call, f)[j].name # ""

\* C5: when two non-placeholder entities of one catalog kind declare the
\* same id, wherever in the tree, flattening that catalog returns
\* ImportError and no catalog.
C5_DuplicateIdIsImportError ==
    (fl_call # "none" /\ DuplicateId(fl_call, freight))
        => fl_ret.kind = "ImportError"

\* C6: for each catalog kind, declared ids 0 and 3 and no others flatten to
\* a catalog of length 4 with the declared entities in slots 0 and 3 and
\* empty-name placeholders in slots 1 and 2; a successful catalog has
\* length (largest declared id + 1).
C6_SparsePadding ==
    /\ (/\ fl_call # "none"
        /\ AllNamed(freight)
        /\ Len(Declared(fl_call, freight)) = 2
        /\ DeclaredIds(fl_call, freight) = {0, 3})
            => /\ fl_ret.kind = "Ok"
               /\ Len(fl_ret.val) = 4
               /\ IdOf(fl_call, fl_ret.val[1]) = 0 /\ fl_ret.val[1].name # ""
               /\ fl_ret.val[2].name = ""
               /\ fl_ret.val[3].name = ""
               /\ IdOf(fl_call, fl_ret.val[4]) = 3 /\ fl_ret.val[4].name # ""
    /\ (fl_ret.kind = "Ok" /\ DeclaredIds(fl_call, freight) # {})
            => \A id \in DeclaredIds(fl_call, freight) : id + 1 <= Len(fl_ret.val)
    /\ (fl_ret.kind = "Ok" /\ fl_ret.val # <<>>)
            => (Len(fl_ret.val) - 1) \in DeclaredIds(fl_call, freight)

\* C7: in every catalog a successful flattening returns, slot i holds an
\* entity whose id is i or a placeholder whose name is empty.
C7_SlotHoldsOwnIdOrPlaceholder ==
    fl_ret.kind = "Ok"
        => \A i \in 1 .. Len(fl_ret.val) :
                \/ IdOf(fl_call, fl_ret.val[i]) = i - 1
                \/ fl_ret.val[i].name = ""

\* Scenario B: one top module with one submodule that holds one function
\* named f with id 0, and nothing else; the two modules have ids of their own
ScenarioB(f) ==
    /\ f.operators = <<>>
    /\ Len(f.top_modules) = 1
    /\ LET module == f.top_modules[1] IN
        /\ module.name # ""
        /\ module.functions = <<>> /\ module.constants = <<>>
        /\ module.types = <<>> /\ module.trait_definitions = <<>>
        /\ Len(module.submodules) = 1
        /\ LET submodule == module.submodules[1] IN
            /\ submodule.name # ""
            /\ submodule.md_id # module.md_id
            /\ submodule.submodules = <<>>
            /\ submodule.constants = <<>> /\ submodule.types = <<>>
            /\ submodule.trait_definitions = <<>>
            /\ Len(submodule.functions) = 1
            /\ submodule.functions[1].name = "f"
            /\ submodule.functions[1].fn_id = 0

\* C8: in Scenario B the function catalog has exactly one entry, at index
\* 0, named <module>::<submodule>::f.
C8_ScenarioBQualifiedName ==
    (fl_call = "get_function_list" /\ ScenarioB(freight))
        => /\ fl_ret.kind = "Ok"
           /\ Len(fl_ret.val) = 1
           /\ fl_ret.val[1].fn_id = 0
           /\ fl_ret.val[1].name =
                freight.top_modules[1].name \o "::"
                \o freight.top_modules[1].submodules[1].name \o "::f"
(***************************************************************************)
(* Memoization in the proxy                                                *)
(***************************************************************************)
\* the memoized catalogs, and the list query that fills each
Catalogs == {"functions", "types", "trait_definitions", "modules"}

ListQuery ==
    [functions |-> "get_function_list", types |-> "get_type_list",
     trait_definitions |-> "get_trait_definition_list", modules |-> "get_module_list"]

ByIdQuery ==
    [functions |-> "get_function_by_id", types |-> "get_type_by_id",
     trait_definitions |-> "get_trait_definition_by_id", modules |-> "get_module_by_id"]

\* this step is a query on the proxy (register_freight is the other step)
Queried == px_changes' = px_changes

\* C12: once a list or by-id query of a catalog has succeeded the catalog is
\* memoized; from then on the memoized catalog never changes, no query of that
\* catalog runs a flattening of the implementor, and the list and by-id
\* queries answer from the memoized content, whatever implementor has been
\* registered since.
C12_AnsweredFromCache ==
    /\ [](\A k \in Catalogs :
            /\ px_focus = k
            /\ px_ret.kind = "Ok"
            /\ px_call.method \in {ListQuery[k], ByIdQuery[k]}
            => /\ px_mem[k].some
               /\ px_call.method = ListQuery[k] => px_ret.val = px_mem[k].val)
    /\ [][\A k \in Catalogs :
            px_mem[k].some =>
                /\ px_mem'[k] = px_mem[k]
                /\ (Queried /\ px_focus = k) =>
                      /\ px_ran' = <<>>
                      /\ px_call'.method = ListQuery[k] => px_ret' = Ok(px_mem[k].val)
                      /\ px_call'.method = ByIdQuery[k] =>
                            /\ px_ret'.kind \in {"Ok", "IndexError"}
                            /\ px_ret'.kind = "Ok" =>
                                  px_ret'.val = px_mem[k].val[px_call'.id + 1]]_vars

\* a list query answered from the cache after another implementor was
\* registered: the answer is not what the implementor of now declares
C12_Witness ==
    /\ px_changes > 0
    /\ px_call.method = "get_function_list"
    /\ px_ran = <<>>
    /\ px_ret.kind = "Ok"
    /\ Len(px_ret.val) > 0
    /\ px_ret # get_function_list(freight)

\* the memoized fields that belong to a catalog: the list and its indexes
FieldsOf ==
    [functions |-> {"functions", "callables", "functions_by_name"},
     types |-> {"types", "types_by_name", "types_by_native_id"},
     trait_definitions |-> {"trait_definitions", "trait_definitions_by_name"},
     modules |-> {"modules", "modules_by_name"}]

\* C13: a query of the proxy that returns ImportError has run a flattening of
\* the implementor and leaves every memoized field as it was, the catalog and
\* its indexes unpopulated; and as long as a catalog is not memoized every
\* query of it runs the flattening (again), exactly once.
C13_ErrorsNotMemoized ==
    [][\A k \in Catalogs :
          (Queried /\ px_focus = k) =>
              /\ px_ret'.kind = "ImportError" =>
                    /\ px_mem' = px_mem
                    /\ \A field \in FieldsOf[k] : ~px_mem'[field].some
                    /\ px_ran' = <<ListQuery[k]>>
              /\ ~px_mem[k].some => px_ran' = <<ListQuery[k]>>]_vars

\* a by-name query failed in the flattening after an earlier query had failed
\* there too: nothing is memoized, and the flattening has run again
C13_Witness ==
    /\ px_call.method = "get_types_by_name"
    /\ px_ret.kind = "ImportError"
    /\ px_ran = <<"get_type_list">>
    /\ px_mem = NoMemory
    /\ px_changes > 0

C14_SameError ==
    /\ px_changes = 0
    /\ px_call.method = "get_function_list"
    /\ px_ret.kind = "ImportError"
    /\ px_ret = get_function_list(freight)

(***************************************************************************)
(* Lookups                                                                 *)
(***************************************************************************)
\* the by-id lookups of a catalog, on the proxy and on the implementor
ByIdQueries(k) ==
    {ByIdQuery[k], "Freight::" \o ByIdQuery[k]}
    \cup (IF k = "functions" THEN {"get_callable_by_id", "Freight::get_callable_by_id"}
          ELSE {})

\* what a by-id lookup hands out of a catalog entry
Handed(method, entry) ==
    IF method \in {"get_callable_by_id", "Freight::get_callable_by_id"}
    THEN entry.callable ELSE entry

\* the by-id contract for the catalogs in Kinds
ByIdContract(Kinds) ==
    \A k \in Kinds :
        LET catalog == flattened(freight)[ListQuery[k]]
            id == px_call.id
        IN
        (/\ px_changes = 0
         /\ px_focus = k
         /\ px_call.method \in ByIdQueries(k)
         /\ catalog.kind = "Ok")
        => IF id >= Len(catalog.val) \/ id \notin DeclaredIds(ListQuery[k], freight)
           THEN px_ret.kind = "IndexError"
           ELSE /\ px_ret = Ok(Handed(px_call.method, catalog.val[id + 1]))
                /\ IdOf(ListQuery[k], catalog.val[id + 1]) = id

\* C15: a lookup by id in the function, callable, type, trait-definition or
\* module catalog, on the proxy or by the methods the Freight trait provides,
\* returns IndexError when the id is at or beyond the length of the catalog
\* or no entity was declared with it (the slot is a placeholder), and the
\* entity declared with the id otherwise.
C15_ByIdContract == ByIdContract(Catalogs)

\* the by-name lookups of a catalog
ByNameQuery ==
    [functions |-> "get_functions_by_name", types |-> "get_types_by_name",
     trait_definitions |-> "get_trait_definitions_by_name",
     modules |-> "get_modules_by_name"]

\* the last call was a by-name lookup in catalog k that found the catalog
\* flattened (memoized in the proxy, flattened anew by the implementor) and
\* no entry of it, placeholders included, carries the name asked for
NameMissed(k) ==
    /\ px_focus = k
    /\ \/ /\ px_call.method = ByNameQuery[k]
          /\ px_mem[k].some
          /\ \A i \in 1 .. Len(px_mem[k].val) : px_mem[k].val[i].name # px_call.name
       \/ /\ px_call.method = "Freight::" \o ByNameQuery[k]
          /\ px_changes = 0
          /\ flattened(freight)[ListQuery[k]].kind = "Ok"
          /\ \A i \in 1 .. Len(flattened(freight)[ListQuery[k]].val) :
                flattened(freight)[ListQuery[k]].val[i].name # px_call.name

\* C16 as stated: a lookup by name for a name that no entry of the catalog
\* carries reports IndexError.
C16_MissIsIndexError ==
    \A k \in Catalogs : NameMissed(k) => px_ret.kind = "IndexError"

\* C16 as the code has it: a lookup by name for a name that no entry of the
\* catalog carries returns Ok with an empty Vec, on the proxy and by the
\* methods the Freight trait provides.
C16_MissIsEmptyOk ==
    \A k \in Catalogs : NameMissed(k) => px_ret = Ok(<<>>)

\* a miss in a catalog that is not empty, on the proxy
C16_Witness ==
    /\ NameMissed("functions")
    /\ px_call.method = "get_functions_by_name"
    /\ px_call.name = "absent"
    /\ Len(px_mem.functions.val) > 1
    /\ px_ret = Ok(<<>>)

\* and by the method of the Freight trait
C16_WitnessFreight ==
    /\ NameMissed("modules")
    /\ px_call.method = "Freight::get_modules_by_name"
    /\ px_call.name = "absent"
    /\ px_ret = Ok(<<>>)
    /\ get_module_list(freight).val # <<>>

\* the memoized name index of a catalog
NameIndexOf ==
    [functions |-> "functions_by_name", types |-> "types_by_name",
     trait_definitions |-> "trait_definitions_by_name", modules |-> "modules_by_name"]

\* the last call was a by-name lookup on the proxy that found or made the
\* catalog k memoized
ByNameAnswered(k) ==
    /\ px_focus = k
    /\ px_call.method = ByNameQuery[k]
    /\ px_mem[k].some

\* the by-name contract of the proxy for the query names in Names: the name
\* index is memoized, and the answer is the entries of the memoized catalog
\* that carry the name, in the order of their slots
ByNameContract(Names) ==
    \A k \in Catalogs :
        (ByNameAnswered(k) /\ px_call.name \in Names) =>
            /\ px_mem[NameIndexOf[k]].some
            /\ px_ret = Ok(SelectSeq(px_mem[k].val, LAMBDA e : e.name = px_call.name))

\* C17: a lookup by name on the proxy returns exactly the entries of the
\* catalog whose qualified name equals the query, in increasing id order,
\* with the name index built by the first by-name query.
C17_ByNameExact == ByNameContract(QueryNames)

(***************************************************************************)
(* Claims about loading                                                    *)
(***************************************************************************)
\* the phases of a call of load, in the order the code goes through them
LoadOrder ==
    [idle |-> 0, opened |-> 1, decl |-> 2, construct |-> 3, done |-> 4]

\* C18: load goes through opening the library, reading the declaration
\* symbol, comparing the versions and invoking the registration in this
\* order, skipping none; it returns LoadingError when the library does not
\* open or lacks the symbol, ImportError when a version string differs, and
\* no proxy in these cases; the proxy it returns has been registered once and
\* carries the name, the version and the backward-compatibility version of
\* the declaration and the library.
C18_LoadInOrder ==
    /\ [](ld_entry = "load" =>
            /\ ld_pc \in {"decl", "construct"} => (ld_in.path_ok /\ lib_mapped)
            /\ ld_pc = "construct" => (ld_in.symbol_ok /\ VersionsMatch(ld_in.decl))
            /\ reg_calls > 0 =>
                  (ld_in.path_ok /\ ld_in.symbol_ok /\ VersionsMatch(ld_in.decl))
            /\ ld_pc = "done" =>
                  /\ ld_ret = (IF ~ld_in.path_ok \/ ~ld_in.symbol_ok THEN "LoadingError"
                               ELSE IF ~VersionsMatch(ld_in.decl) THEN "ImportError"
                               ELSE "Ok")
                  /\ ld_ret # "Ok" => (proxy = NoProxy /\ reg_calls = 0)
                  /\ ld_ret = "Ok" =>
                        /\ reg_calls = 1
                        /\ proxy.exists
                        /\ proxy.lib /\ lib_mapped
                        /\ proxy.name = ld_in.decl.name
                        /\ proxy.version = ld_in.decl.freight_version
                        /\ proxy.backwards_compat_version =
                              ld_in.decl.backwards_compat_version)
    /\ [][(ld_entry' = "load" /\ ld_pc' # "idle") =>
            /\ LoadOrder[ld_pc'] > LoadOrder[ld_pc]
            /\ ld_ret' = "Ok" => LoadOrder[ld_pc'] = LoadOrder[ld_pc] + 1
            /\ ld_pc' # "done" => LoadOrder[ld_pc'] = LoadOrder[ld_pc] + 1
            /\ reg_calls' # reg_calls => (ld_pc = "construct" /\ ld_pc' = "done")
            /\ ~proxy.exists /\ proxy'.exists => reg_calls' = reg_calls + 1]_vars

\* load returned a proxy whose two versions differ, after one registration
C18_Witness ==
    /\ ld_entry = "load"
    /\ ld_pc = "done"
    /\ ld_ret = "Ok"
    /\ reg_calls = 1
    /\ proxy.lib
    /\ proxy.name = "other"
    /\ proxy.version = "0.2.0"
    /\ proxy.backwards_compat_version = "0.1.0"

\* load failed on the symbol after the library had opened
C18_NoSymbol ==
    /\ ld_entry = "load"
    /\ ld_pc = "done"
    /\ ld_in.path_ok /\ ~ld_in.symbol_ok
    /\ ld_ret = "LoadingError"
    /\ proxy = NoProxy

(***************************************************************************)
(* The proxy whose registration registered nothing                         *)
(***************************************************************************)
\* the proxy still holds the EmptyFreight it was built around
Unregistered == freight = EmptyFreight /\ px_changes = 0

\* C19 as stated: every catalog query on a proxy that still holds the
\* placeholder implementor returns NotImplementedError.
C19_UnregisteredIsError ==
    (Unregistered /\ px_call.method # "none") => px_ret.kind = "NotImplementedError"

\* C19 as the code has it: on a proxy that still holds the placeholder
\* implementor the list queries and the by-name lookups return Ok with an
\* empty Vec, the by-id and by-native-id lookups return IndexError, and no
\* query returns NotImplementedError.
C19_UnregisteredIsEmpty ==
    (Unregistered /\ px_call.method # "none") =>
        IF px_call.method \in {ListQuery[k] : k \in Catalogs}
                              \cup {ByNameQuery[k] : k \in Catalogs}
                              \cup {"get_callable_list"}
        THEN px_ret = Ok(<<>>)
        ELSE px_ret.kind = "IndexError"

\* a list query and a by-id lookup on such a proxy
C19_Witness ==
    /\ Unregistered
    /\ px_call.method = "get_module_list"
    /\ px_ret = Ok(<<>>)
    /\ px_mem.modules = Some(<<>>)

C19_WitnessById ==
    /\ Unregistered
    /\ px_call.method = "get_callable_by_id"
    /\ px_ret.kind = "IndexError"

(***************************************************************************)
(* Empty names                                                             *)
(***************************************************************************)
\* an entity of the catalog kind of the call is declared with an empty name
Unnamed(call, f) ==
    \E i \in 1 .. Len(Declared(call, f)) : Declared(call, f)[i].name = ""

\* C20: when a module, type, trait definition or callable (operator, module
\* function, constant, type method, field accessor, trait-implementation
\* method) is declared with an empty name anywhere in the tree, flattening
\* the catalog of its kind returns ImportError and no catalog.
C20_EmptyNameIsImportError ==
    (fl_call # "none" /\ Unnamed(fl_call, freight)) => fl_ret.kind = "ImportError"

(***************************************************************************)
(* The function catalog                                                    *)
(***************************************************************************)
\* the callables a type T of the module with the joined name M declares,
\* under the names the catalog is to give them
callables_of_type(M, T) ==
    [i \in 1 .. Len(T.methods) |->
        [T.methods[i] EXCEPT !.name = M \o "::" \o T.name \o "::" \o @]]
    \o [i \in 1 .. Len(T.fields) |->
        [T.fields[i] EXCEPT !.name = "@" \o M \o "::" \o T.name \o "::" \o @]]
    \o Flatten([j \in 1 .. Len(T.trait_implementations) |->
        [i \in 1 .. Len(T.trait_implementations[j].methods) |->
            [T.trait_implementations[j].methods[i].function
                EXCEPT !.name = M \o "::" \o T.name \o "::" \o @]]])

RECURSIVE callables_in(_, _)
\* the callables declared in the modules mods and below them, prefix being
\* the joined names of the ancestors ("" at the top, else ending in "::")
callables_in(mods, prefix) ==
    IF mods = <<>> THEN <<>>
    ELSE
        LET module == Head(mods)
            M == prefix \o module.name
        IN
        [i \in 1 .. Len(module.functions) |->
            [module.functions[i] EXCEPT !.name = M \o "::" \o @]]
        \o [i \in 1 .. Len(module.constants) |->
            [module.constants[i] EXCEPT !.name = "@" \o M \o "::" \o @]]
        \o Flatten([t \in 1 .. Len(module.types) |->
                        callables_of_type(M, module.types[t])])
        \o callables_in(module.submodules, M \o "::")
        \o callables_in(Tail(mods), prefix)

\* every callable of the tree under its catalog name
catalog_callables(f) == f.operators \o callables_in(f.top_modules, "")

\* the catalog list holds every callable of expected at the slot of its id,
\* and nothing else but placeholders
HoldsExactly(list, expected) ==
    /\ \A i \in 1 .. Len(expected) :
          /\ expected[i].fn_id < Len(list)
          /\ list[expected[i].fn_id + 1] = expected[i]
    /\ Cardinality({k \in 1 .. Len(list) : list[k].name # ""}) = Len(expected)
    /\ \A k \in 1 .. Len(list) :
          list[k].name = "" => list[k] = DefaultFunction

\* C21: a function catalog that get_function_list returns holds every
\* callable declared in the tree exactly once at its declared id: operators
\* under their own name, module functions as M::f, constants as @M::c, type
\* methods as M::T::m, field accessors as @M::T::x, trait-implementation
\* methods as M::T::m, M the joined names of the module and its ancestors;
\* and when two callables of whatever source declare one id the call
\* returns ImportError.
C21_FunctionCatalog ==
    fl_call = "get_function_list" =>
        /\ fl_ret.kind = "Ok" => HoldsExactly(fl_ret.val, catalog_callables(freight))
        /\ DuplicateId("get_function_list", freight) => fl_ret.kind = "ImportError"

(***************************************************************************)
(* Claims about handles, containers and the payload U8                     *)
(***************************************************************************)
ObLive == {h \in ObHandles : ob_ptr[h] # 0}

\* the handles h and g are alive and one descends from the other, or both
\* from a third, by Object::clone
Cloned(h, g) == h # g /\ h \in ObLive /\ g \in ObLive /\ ob_from[h] = ob_from[g]

\* the last call stored a payload through its handle
Stored == ob_last.op \in {"set", "dk_load"} /\ ob_last.res.kind = "Ok"

\* what the last call stored, as get hands it out
StoredValue ==
    IF ob_last.op = "set" THEN to_dk(ob_last.arg.data)
                          ELSE to_dk(ob_last.arg[ob_last.cursor + 1])

C23_SetChecksType ==
    [][\A h \in ObHandles, new_data \in Boxes :
          ObjSet(h, new_data) =>
              IF new_data.type = "U8"
              THEN /\ ob_last'.res.kind = "Ok"
                   /\ get_underlying_data(ob_heap', ob_ptr[h]) = to_dk(new_data.data)
              ELSE /\ ob_last'.res.kind = "TypeError"
                   /\ ob_heap' = ob_heap]_vars

\* the last call was dk_load, from cursor 0, of the bytes that dk_dump
\* produces for a payload holding v
LoadedDumpOf(v) ==
    /\ ob_last.op = "dk_load"
    /\ ob_last.cursor = 0
    /\ U8_dk_dump(v).kind = "Ok"
    /\ ob_last.arg = U8_dk_dump(v).val

\* C24: for every payload value v, dk_load from cursor 0 of the bytes that
\* dk_dump gives for a payload holding v returns Ok, leaves a payload whose
\* get returns v and has moved the cursor on by the number of bytes dumped.
C24_DumpLoadRoundTrip ==
    \A v \in Bytes :
        LoadedDumpOf(v) =>
            /\ ob_last.res.kind = "Ok"
            /\ get_underlying_data(ob_heap, ob_ptr[ob_last.h]) = to_dk(v)
            /\ ob_last.after = ob_last.cursor + Len(U8_dk_dump(v).val)

\* the dump of a payload holding 1 has been loaded, the cursor stands at 1
C24_Witness ==
    /\ LoadedDumpOf(1)
    /\ ob_last.after = 1
    /\ get_underlying_data(ob_heap, ob_ptr[ob_last.h]) = to_dk(1)

(***************************************************************************)
(* Claims about the ordering of Versions                                   *)
(***************************************************************************)
\* how many of a < b, a == b and a > b hold
HowManyHold(a, b) ==
    Cardinality({r \in {"lt", "eq", "gt"} :
                    \/ r = "lt" /\ Version_lt(a, b)
                    \/ r = "eq" /\ Version_eq(a, b)
                    \/ r = "gt" /\ Version_gt(a, b)})

\* C25: the comparison of Versions is a strict total order: of a < b, a == b
\* and a > b exactly one holds, a < b implies b > a, a < b and b < c imply
\* a < c, and == holds exactly when cmp returns Equal.  Stated of what the
\* calls return on the pair compared, with every third Version c.
C25_StrictTotalOrder ==
    /\ ver_out.op = "lt" /\ ver_out.res =>
          /\ Version_gt(ver_b, ver_a)
          /\ \A c \in Versions : Version_lt(ver_b, c) => Version_lt(ver_a, c)
    /\ ver_out.op \in {"lt", "eq", "gt"} => HowManyHold(ver_a, ver_b) = 1
    /\ ver_out.op = "eq" => (ver_out.res <=> Version_cmp(ver_a, ver_b) = "Equal")
    /\ ver_out.op = "gt" => (ver_out.res <=> Version_lt(ver_b, ver_a))

\* a < b has been called on two Versions and returned true
C25_Witness ==
    /\ ver_out.op = "lt" /\ ver_out.res
    /\ \E c \in Versions : Version_lt(ver_b, c)

\* the tuple (major, minor, release, build)
Tuple(v) == <<v.major, v.minor, v.release, v.build>>

\* the lexicographic comparison of two tuples of numbers of one length: the
\* first place where they differ decides
Lexicographic(s, t) ==
    IF s = t THEN "Equal"
    ELSE LET i == CHOOSE k \in 1 .. Len(s) :
                      s[k] # t[k] /\ \A j \in 1 .. (k - 1) : s[j] = t[j]
         IN  IF s[i] < t[i] THEN "Less" ELSE "Greater"

\* C26: Version::cmp returns the lexicographic comparison of the tuples
\* (major, minor, release, build), and two Versions are equal, by cmp and by
\* ==, if and only if all four fields match.
C26_CmpIsLexicographic ==
    /\ ver_out.op = "cmp" =>
          /\ ver_out.res = Lexicographic(Tuple(ver_a), Tuple(ver_b))
          /\ ver_out.res = "Equal" <=> ver_a = ver_b
    /\ ver_out.op = "partial_cmp" =>
          ver_out.res = Some(Lexicographic(Tuple(ver_a), Tuple(ver_b)))
    /\ ver_out.op = "eq" => (ver_out.res <=> Tuple(ver_a) = Tuple(ver_b))

\* cmp has been called on two Versions that differ first in the minor number,
\* the release and build numbers pointing the other way
C26_Witness ==
    /\ ver_out.op = "cmp" /\ ver_out.res = "Less"
    /\ ver_a.major = ver_b.major /\ ver_a.minor < ver_b.minor
    /\ ver_a.release > ver_b.release /\ ver_a.build > ver_b.build

(***************************************************************************)
(* Claims about the library of a loaded proxy                              *)
(***************************************************************************)
\* the proxy that a call of load returned is alive
ProxyOfLoad == ld_entry = "load" /\ proxy.exists

C28_OverflowAtCap ==
    ct_out.op \in {"dk_incref", "dk_try_lock"} =>
        (ct_out.res = "OverflowError" <=> ct_out.pre >= ISIZE_MAX)

\* the count has been raised past the cap, and the shared acquire now finds
\* the lock word above the cap
C28_Witness ==
    /\ ct_out = [op |-> "dk_try_lock", pre |-> ISIZE_MAX + 1, res |-> "OverflowError"]
    /\ ct_rc = ISIZE_MAX + 2

\* dk_incref has been refused on a count standing exactly at the cap
C28_WitnessIncref ==
    ct_out = [op |-> "dk_incref", pre |-> ISIZE_MAX, res |-> "OverflowError"]

(***************************************************************************)
(* Claims about the end of the module walk                                 *)
(***************************************************************************)
\* C29: for every declared module tree get_module_list, and with it every
\* catalog query of the default implementation, ends with an explicit
\* result, Ok(catalog) or ImportError; the walk never aborts on its stacks.
C29_ExplicitResult ==
    fl_call # "none" => fl_ret.kind \in {"Ok", "ImportError"}

(***************************************************************************)
(* Claims about the blocking acquires                                      *)
(***************************************************************************)
\* thread t is inside a call of dk_lock or dk_lock_ex
Blocked(t) == lk_pc[t] # "idle" /\ lk_op[t] \in {"lock", "lock_ex"}

\* this step is the return of thread t from the call op with success
ReturnsSuccess(t, op) ==
    /\ lk_pc'[t] = "idle"
    /\ lk_last' = [t |-> t, op |-> op, res |-> "true", pre |-> lck, post |-> lck']
    /\ held'[t] # held[t]

C30_WitnessShared ==
    \E t \in Threads, u \in Threads :
        /\ t # u
        /\ held[t].ex = 1 /\ lck = 1
        /\ lk_pc[u] = "tl_load" /\ lk_op[u] = "lock"

(***************************************************************************)
(* Claims about filling a placeholder slot                                 *)
(***************************************************************************)
\* the catalog queries whose placement loop is the one of the function,
\* type and trait-definition catalogs
EntityCalls == {"get_function_list", "get_type_list", "get_trait_definition_list"}

\* the word the duplicate-id message of a catalog query uses
CatalogWord(call) ==
    CASE call = "get_function_list" -> "functions"
      [] call = "get_type_list" -> "types"
      [] call = "get_trait_definition_list" -> "traits"
      [] OTHER -> "modules"

\* the call has returned the duplicate-id ImportError of its own catalog
DuplicateIdError(call, ret) ==
    /\ ret.kind = "ImportError"
    /\ \E id \in Ids : ret.msg = several(CatalogWord(call), id)

\* two entities of the catalog kind of the call declare one id, whatever
\* their names
DeclaredTwice(call, f) ==
    \E i, j \in 1 .. Len(Declared(call, f)) :
        /\ i < j
        /\ IdOf(call, Declared(call, f)[i]) = IdOf(call, Declared(call, f)[j])

\* C32: in the function, type and trait-definition catalogs the
\* duplicate-id ImportError is returned only when two entities declare the
\* same id; an entity whose id is the index of a slot that holds a
\* placeholder, padded for an entity with a higher id met earlier, is placed
\* there without error.
C32_PlaceholderSlotFilled ==
    (fl_call \in EntityCalls /\ DuplicateIdError(fl_call, fl_ret))
        => DeclaredTwice(fl_call, freight)

\* no module of the tree has an empty name
ModulesNamed(f) ==
    \A i \in 1 .. Len(Declared("get_module_list", f)) :
        Declared("get_module_list", f)[i].name # ""

\* C33: a module whose id is below the current length of the module catalog
\* and whose slot holds only a placeholder is placed in that slot and
\* removed from the traversal stack, and the walk goes on: when all modules
\* are named and no two declare one id, get_module_list returns Ok with
\* every declared module at its own id.
C33_ModulePlaceholderFilled ==
    (/\ fl_call = "get_module_list"
     /\ ModulesNamed(freight)
     /\ ~DeclaredTwice("get_module_list", freight))
        => /\ fl_ret.kind = "Ok"
           /\ \A id \in DeclaredIds("get_module_list", freight) :
                /\ id + 1 <= Len(fl_ret.val)
                /\ fl_ret.val[id + 1].md_id = id
                /\ fl_ret.val[id + 1].name # ""

(***************************************************************************)
(* Claims about the values of the lock word                                *)
(***************************************************************************)
\* the shared holds of all threads together
RECURSIVE SharedHolds(_)
SharedHolds(ts) ==
    IF ts = {} THEN 0
    ELSE LET t == CHOOSE u \in ts : TRUE IN held[t].sh + SharedHolds(ts \ {t})

\* the last call returned from one of the "Invalid lock value" branches: a
\* RuntimeError of dk_try_lock or dk_lock, or one of dk_unlock on a word
\* that was not 0
InvalidLockValue ==
    /\ lk_last.res = "RuntimeError"
    /\ lk_last.op = "unlock" => lk_last.pre # 0

Quiescent == \A h \in Handles : hs[h] # "dropping"

\* C35: with handles made by Object::new and Object::clone and destroyed by
\* drop, the count is the number of live handles in every quiescent state;
\* it is 1 after construction, a clone adds exactly 1, a drop subtracts
\* exactly 1, and the count is never taken below 0.
C35_CountIsLiveHandles ==
    /\ (hs = [h \in Handles |-> IF h = 0 THEN "live" ELSE "none"] => rc = 1)
    /\ [](Quiescent => rc = Cardinality(LiveHandles))
    /\ [][/\ (\E h \in Handles : hs[h] = "none" /\ hs'[h] = "live") => rc' = rc + 1
          /\ (\E h \in Handles : hs[h] = "live" /\ hs'[h] = "dropping") =>
                rc > 0 /\ rc' = rc - 1
          /\ LiveHandles' = LiveHandles => rc' = rc]_vars

\* two clones were made and one of the three handles has been dropped
C35_Witness ==
    /\ Quiescent
    /\ Cardinality(LiveHandles) = 2
    /\ Cardinality({h \in Handles : hs[h] = "gone"}) = 1
    /\ rc = 2

(***************************************************************************)
(* Claims about the progress of the blocking acquires                      *)
(***************************************************************************)
\* every thread but t has released what it held
OthersFree(t) == \A u \in Threads \ {t} : HoldsNothing(u)

\* thread t has come back from dk_lock or dk_lock_ex with the lock
Acquired(t) ==
    /\ lk_pc[t] = "idle"
    /\ lk_last.t = t /\ lk_last.op \in {"lock", "lock_ex"} /\ lk_last.res = "true"
    /\ ~HoldsNothing(t)

ListMethods ==
    {"get_function_list", "get_type_list", "get_trait_definition_list", "get_module_list"}

\* what the implementor itself answers to the query: its flattening for a
\* catalog list, the lookup the Freight trait provides for the others
DefaultAnswer(call, f) ==
    CASE call.method = "get_function_list" -> get_function_list(f)
      [] call.method = "get_type_list" -> get_type_list(f)
      [] call.method = "get_trait_definition_list" -> get_trait_definition_list(f)
      [] call.method = "get_module_list" -> get_module_list(f)
      [] call.method \in {"get_functions_by_name", "get_types_by_name",
                          "get_trait_definitions_by_name", "get_modules_by_name",
                          "get_type_by_native_id"} ->
            freight_query(call.method, call.name, f)
      [] OTHER -> freight_query(call.method, call.id, f)

\* the last query was made on the proxy
OnProxy == px_call.method \in UNION {Methods[k] : k \in DOMAIN Methods}

\* C37: on one declared tree, every query on the memoizing proxy returns
\* what the default Freight implementation returns on that tree, the same
\* value or an error of the same kind, whatever was queried before.
C37_ProxyAgreesWithDefault ==
    (OnProxy /\ px_changes = 0)
        => /\ px_ret.kind = DefaultAnswer(px_call, freight).kind
           /\ px_ret.val = DefaultAnswer(px_call, freight).val

(***************************************************************************)
(* Claims about the destruction of the proxy                               *)
(***************************************************************************)
\* C38: when a proxy that holds the last handle of its library is
\* destroyed, the registered implementor and every memoized value of the
\* plugin (callables, functions, types, trait definitions, modules) are
\* destroyed before the library is unmapped: no field holding a value of
\* the plugin is dropped after the library is gone.
C38_PluginValuesBeforeUnmap == dp_late = {}

C40_RefusedIncrefKeepsCount ==
    (ct_out.op = "dk_incref" /\ ct_out.res = "OverflowError") => ct_rc = ct_out.pre
====
